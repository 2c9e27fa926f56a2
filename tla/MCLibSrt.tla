------------------------------ MODULE MCLibSrt ------------------------------
(***************************************************************************)
(* Instances of LibSrt for TLC; the values of the constants are in the cfg *)
(* files.  The property below is what a comment of the code says; the code *)
(* does not do it.                                                         *)
(***************************************************************************)
EXTENDS LibSrt

\* A handle opened with SRTIOFlag::WRITE, "write-only" (libsrt_param.hpp:15),
\* writes: a wait of write() that finds its connected socket writable, and
\* nothing else, leads to srt_sendmsg.
WriteOnlyHandleWrites ==
    [][(/\ At("owner", "ioPoll") /\ op = "write" /\ IoFlag = "WRITE"
        /\ Pollable(waitEid) /\ Reported(waitEid) = {"OUT"} /\ IoPoll)
       => At("owner", "ioCall")']_vars
=============================================================================
