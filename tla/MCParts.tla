------------------------------ MODULE MCParts ------------------------------
(***************************************************************************)
(* Five parts of the library that share no state and do not call each      *)
(* other, in one instance for TLC: the part that is active moves, and the  *)
(* others keep their initial states, so that the parts' states add up and  *)
(* do not multiply.                                                        *)
(***************************************************************************)
EXTENDS XLog, SRTPush, AACParse, MkdirP, CalcSample

VARIABLE active

pVars == <<active, logVars, pushVars, pData, dirVars, vars>>

\* A directory; one below the root; one below the working directory, with a
\* separator at its end; one with two separators in a row; one that ends in a dot;
\* and a backslash, which the loop takes for a separator and the system for a letter.
PathsGiven ==
    {<<"a">>, <<"/", "a", "/", "b">>, <<".", "/", "a", "/", "b", "/">>,
     <<"a", "/", "/", "b">>, <<"a", "/", ".">>, <<"a", "\\", "b">>}

PartsInit ==
    /\ active \in {"XLog", "SRTPush", "AACParse", "MkdirP", "CalcSample"}
    /\ LogInit /\ PushInit /\ AdtsInit /\ DirInit /\ Init

PartsNext ==
    /\ UNCHANGED active
    /\ \/ active = "XLog"       /\ LogNext  /\ UNCHANGED <<pushVars, pData, dirVars, vars>>
       \/ active = "SRTPush"    /\ PushNext /\ UNCHANGED <<logVars, pData, dirVars, vars>>
       \/ active = "AACParse"   /\ SetBit   /\ UNCHANGED <<logVars, pushVars, dirVars, vars>>
       \/ active = "MkdirP"     /\ DirNext  /\ UNCHANGED <<logVars, pushVars, pData, vars>>
       \/ active = "CalcSample" /\ Next     /\ UNCHANGED <<logVars, pushVars, pData, dirVars>>

\* Only XLog has a property that needs fairness; the others may stop anywhere.
PartsSpec == PartsInit /\ [][PartsNext]_pVars /\ LogFairness
=============================================================================
