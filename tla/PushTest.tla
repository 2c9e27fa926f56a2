------------------------------ MODULE PushTest ------------------------------
(***************************************************************************)
(* The program of the repository (test/test_push.cpp) over class SRTPush   *)
(* (native/srtcore/srt_push.cpp) over class LibSrt: the main thread waits  *)
(* for the key, asks the push thread to quit and joins it; the push thread *)
(* makes an SRTPush, writes the file to it block by block, and drops it.   *)
(* The push thread is the owner of the handle of LibSrt; nobody calls      *)
(* quit() or close() from another thread.  A definition whose comment says *)
(* "Fault" is used by nothing (see README, "Faults").                      *)
(***************************************************************************)
EXTENDS LibSrt

CONSTANT FileBlocks   \* bound: whole blocks of 1316 bytes in the file

ASSUME PushTestAssumption ==
    /\ FileBlocks \in Nat
    /\ Mode = "CALLER" /\ IoFlag = "WRITE"    \* what SRTPush's constructor asks for
    /\ ~RwTimeout /\ ~PostOptions

VARIABLES quit,      \* the flag the two threads share
          main,      \* where the main thread is
          push,      \* where the push thread is
          success,   \* SRTPush::success_
          handle,    \* SRTPush::handle_: "null" or "set"
          blocks     \* whole blocks still to be read from the file

pushVars == <<quit, main, push, success, handle, blocks>>
allVars  == <<vars, pushVars>>

PushInit ==
    /\ Init
    /\ quit = FALSE /\ main = "getchar" /\ push = "fopen"
    /\ success = FALSE /\ handle = "null" /\ blocks = FileBlocks

-----------------------------------------------------------------------------
(* The push thread *)

PushGoto(l) == push' = l

Fopen ==
    /\ push = "fopen"
    /\ PushGoto("construct") \/ PushGoto("over")          \* fopen fails
    /\ UNCHANGED <<vars, quit, main, success, handle, blocks>>

\* SRTPush::SRTPush, up to the call of open() ...
Construct ==
    /\ push = "construct"
    /\ handle' = "set"
    /\ OpenStart
    /\ PushGoto("opening")
    /\ UNCHANGED <<quit, main, success, blocks>>

\* ... and after it.
Constructed ==
    /\ push = "opening" /\ At("owner", "idle")
    /\ success' = ok
    /\ PushGoto(IF ok THEN "check" ELSE "destroy")
    /\ UNCHANGED <<vars, quit, main, handle, blocks>>

\* The top of the loop.  (Faults: it does not look at quit, or forgets to drop the
\* SRTPush.)
CheckNothing ==
    /\ push = "check"
    /\ PushGoto("read")
    /\ UNCHANGED <<vars, quit, main, success, handle, blocks>>

CheckForgetsPush ==
    /\ push = "check"
    /\ PushGoto(IF quit THEN "over" ELSE "read")
    /\ UNCHANGED <<vars, quit, main, success, handle, blocks>>

CheckQuit ==
    /\ push = "check"
    /\ PushGoto(IF quit THEN "destroy" ELSE "read")
    /\ UNCHANGED <<vars, quit, main, success, handle, blocks>>

\* A short read moves to the end of the file and starts over, again and again.
ReadBlock ==
    /\ push = "read"
    /\ \/ blocks > 0 /\ blocks' = blocks - 1 /\ PushGoto("write")
       \/ blocks = 0 /\ UNCHANGED blocks /\ PushGoto("check")
    /\ UNCHANGED <<vars, quit, main, success, handle>>

\* SRTPush::write
Write ==
    /\ push = "write"
    /\ IF ~success \/ handle = "null" THEN PushGoto("check") /\ UNCHANGED vars
                                      ELSE PushGoto("writing") /\ IoStart("write")
    /\ UNCHANGED <<quit, main, success, handle, blocks>>

Written ==
    /\ push = "writing" /\ At("owner", "idle")
    /\ PushGoto("check")
    /\ UNCHANGED <<vars, quit, main, success, handle, blocks>>

\* The last shared_ptr goes: SRTPush::~SRTPush calls release().
Destroy ==
    /\ push = "destroy"
    /\ CloseStart("owner")
    /\ PushGoto("releasing")
    /\ UNCHANGED <<quit, main, success, handle, blocks>>

Released ==
    /\ push = "releasing" /\ At("owner", "idle")
    /\ handle' = "null"
    /\ PushGoto("over")
    /\ UNCHANGED <<vars, quit, main, success, blocks>>

PushStep ==
    Fopen \/ Construct \/ Constructed \/ CheckQuit \/ ReadBlock \/ Write \/ Written
          \/ Destroy \/ Released

-----------------------------------------------------------------------------
(* The main thread *)

PressQ ==
    /\ main = "getchar"
    /\ quit' = TRUE
    /\ main' = "join"
    /\ UNCHANGED <<vars, push, success, handle, blocks>>

Join ==
    /\ main = "join" /\ push = "over"
    /\ main' = "over"
    /\ UNCHANGED <<vars, quit, push, success, handle, blocks>>

-----------------------------------------------------------------------------
HandleStep == (OpenStep \/ IoStep \/ CloseStep("owner")) /\ UNCHANGED pushVars

PushNext ==
    \/ PushStep \/ HandleStep
    \/ PressQ \/ Join
    \/ (ClockTick \/ NetworkStep) /\ UNCHANGED pushVars

PushSpec == PushInit /\ [][PushNext]_allVars

\* Both threads run, and SRT bounds the handshake; the network owes nothing
\* else, and nobody has to press the key.
PushFairSpec ==
    /\ PushSpec
    /\ WF_allVars(PushStep) /\ WF_allVars(HandleStep) /\ WF_allVars(Join)
    /\ WF_allVars(Handshake /\ UNCHANGED <<members, locals, pc, op, ok, lateIO, pushVars>>)

-----------------------------------------------------------------------------
(* Properties *)

\* Once q is pressed the program ends, wherever the push thread is then: in
\* open(), in a write, or spinning at the end of the file.  No timeout is set
\* and nobody calls LibSrt::quit(), so this rests on every wait ending by itself.
ProgramEnds == (main = "join") ~> (main = "over")

\* When it has ended, no socket and no epoll is left, and the handle is gone;
\* whether open() failed, and at which address, or a write did.
EndsClean ==
    push = "over" => LiveSocks = {} /\ LiveEpolls = {} /\ handle = "null"
=============================================================================
