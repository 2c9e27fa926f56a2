------------------------------- MODULE MkdirP -------------------------------
(***************************************************************************)
(* mkdir_p (native/base/file_system.hpp), called by several processes at   *)
(* once: it makes the directory named by every prefix that ends before a   *)
(* separator, and then the whole.  mkdir itself is the system's, and may   *)
(* fail whenever it is called.  A definition whose comment says "Fault" is *)
(* used by nothing (see README, "Faults").                                 *)
(***************************************************************************)
EXTENDS Integers, SequencesExt

CONSTANTS Callers,
          Paths      \* what they are given, as sequences of characters

\* The code looks at the character before the end of the path.
ASSUME PathsAssumption == \A p \in Paths : p \in Seq(STRING) /\ p # <<>>

Separators == {"/", "\\"}

VARIABLES dirs,      \* the directories there are, each the sequence of its names
          text,      \* per caller: temp
          pos,       \* where it is in it, 0 before the call and after it
          ret,       \* the result of its last mkdir, which is that of the call
          made,      \* the directories it made itself
          refused    \* and those the system refused it, although nothing it asked for
                     \* was wrong; <<>> if already the copy of the path failed

dirVars == <<dirs, text, pos, ret, made, refused>>

DirInit ==
    /\ dirs = {<<>>}
    /\ text = [c \in Callers |-> <<>>] /\ pos = [c \in Callers |-> 0]
    /\ ret = [c \in Callers |-> 0]
    /\ made = [c \in Callers |-> {}] /\ refused = [c \in Callers |-> {}]

\* What a path names, from where all paths start here: the names between its slashes.
\* A reader of it has the names that are done and the one it is in.
Closed(r) == IF r.cur \in {<<>>, <<".">>} THEN r.done ELSE Append(r.done, r.cur)

Reading(path) ==
    FoldLeft(LAMBDA r, ch : IF ch = "/" THEN [done |-> Closed(r), cur |-> <<>>]
                                        ELSE [done |-> r.done, cur |-> Append(r.cur, ch)],
             [done |-> <<>>, cur |-> <<>>], path)

Names(path) == Closed(Reading(path))

\* The last name is a dot, whatever slashes follow it.
EndsInDot(path) ==
    \E i \in DOMAIN path :
        /\ path[i] = "." /\ (i > 1 => path[i - 1] = "/")
        /\ \A j \in (i + 1)..Len(path) : path[j] = "/"

-----------------------------------------------------------------------------
\* The first test is of one character, the second of two.
Start(path) ==
    IF path[1] \in Separators THEN 2
    ELSE IF Len(path) > 1 /\ path[1] = "." /\ path[2] \in Separators THEN 3 ELSE 1

\* The path is copied to temp first, for which there may be no memory.
Call(c, path) ==
    /\ pos[c] = 0
    /\ text' = [text EXCEPT ![c] = path] /\ made' = [made EXCEPT ![c] = {}]
    /\ \/ /\ pos' = [pos EXCEPT ![c] = Start(path)]
          /\ ret' = [ret EXCEPT ![c] = 0] /\ refused' = [refused EXCEPT ![c] = {}]
       \/ /\ ret' = [ret EXCEPT ![c] = -1] /\ refused' = [refused EXCEPT ![c] = {<<>>}]
          /\ UNCHANGED pos
    /\ UNCHANGED dirs

\* What mkdir(2) asks for: the directory is not there, its parent is, and it has a
\* name of its own.
Makeable(path) == Names(path) \notin dirs /\ Front(Names(path)) \in dirs /\ ~EndsInDot(path)

\* Even then it may fail: no permission, no space, a read-only system, a name too
\* long, a file that has the name.
Mkdir(c, path) ==
    \/ /\ Makeable(path)
       /\ dirs' = dirs \cup {Names(path)} /\ made' = [made EXCEPT ![c] = @ \cup {Names(path)}]
       /\ ret' = [ret EXCEPT ![c] = 0] /\ UNCHANGED refused
    \/ /\ ret' = [ret EXCEPT ![c] = -1]
       /\ refused' = [refused EXCEPT ![c] = IF Makeable(path) THEN @ \cup {Names(path)} ELSE @]
       /\ UNCHANGED <<dirs, made>>

\* The loop goes on whatever mkdir answers: a prefix may be there already.  (Fault: it
\* stops at an error.)
AfterPrefixStops(c) == IF ret'[c] = 0 THEN pos[c] + 1 ELSE 0
AfterPrefix(c)      == pos[c] + 1

Loop(c) ==
    /\ pos[c] > 0 /\ pos[c] <= Len(text[c])
    /\ IF text[c][pos[c]] \in Separators
       THEN /\ Mkdir(c, SubSeq(text[c], 1, pos[c] - 1))
            /\ pos' = [pos EXCEPT ![c] = AfterPrefix(c)]
       ELSE pos' = [pos EXCEPT ![c] = @ + 1] /\ UNCHANGED <<dirs, ret, made, refused>>
    /\ UNCHANGED text

\* Of the two tests for a separator at the end one always holds.
Whole(c) ==
    /\ pos[c] > Len(text[c])
    /\ Mkdir(c, text[c])
    /\ pos' = [pos EXCEPT ![c] = 0]
    /\ UNCHANGED text

DirNext == \E c \in Callers : (\E p \in Paths : Call(c, p)) \/ Loop(c) \/ Whole(c)

DirSpec == DirInit /\ [][DirNext]_dirVars

-----------------------------------------------------------------------------
\* When mkdir_p returns, the directory is there, although other processes made parts
\* of it meanwhile and results for prefixes are ignored, unless this very call was
\* refused the directory or one above it.  The result is 0 exactly if the last mkdir
\* made it, so a directory that was there, or whose path ends in a separator or a dot,
\* is an error, and a prefix that was refused is none if somebody else made it.
DirectoryIsThere ==
    \A c \in Callers : pos[c] = 0 /\ text[c] # <<>> =>
        /\ \/ Names(text[c]) \in dirs
           \/ ret[c] = -1 /\ \E d \in refused[c] : IsPrefix(d, Names(text[c]))
        /\ ret[c] = 0 => Names(text[c]) \in made[c] \cap dirs
        /\ ret[c] = -1 /\ Names(text[c]) \in made[c] =>
              Reading(text[c]).cur \in {<<>>, <<".">>}
=============================================================================
