---------------------------- MODULE LibSrtProofs ----------------------------
(***************************************************************************)
(* Proofs about LibSrt, for every mode, flag, number of addresses and      *)
(* number of sockets and epolls, and behind them those about PushTest,     *)
(* which rest on them: the program is one of the users LibSrt allows.      *)
(***************************************************************************)
EXTENDS PushTest, TLAPS

USE DEF Thread

-----------------------------------------------------------------------------
(* Type correctness *)

\* Whatever the constructor left in the members, they are of their types.
LEMMA InitTypeOK == Init => TypeOK
<1> SUFFICES ASSUME Init PROVE TypeOK
  OBVIOUS
<1>1. ApiTypeOK
  BY DEF Init, ApiInit, ApiTypeOK, Status
<1>2. PcTypeOK
  BY DEF Init, PcTypeOK
<1>3. quitIO \in BOOLEAN /\ ok \in BOOLEAN /\ expired \in BOOLEAN
  BY DEF Init
<1> QED
  BY <1>1, <1>2, <1>3, LibSrtAssumption DEF Init, TypeOK, PayloadSize

\* The helpers of the library keep the library's variables well typed.
LEMMA ApiHelpersTypeOK ==
  ASSUME ApiTypeOK
  PROVE  /\ \A s : AfterClose(s) \in [SockId -> Status]
         /\ \A e : AfterRelease(e) \in [EpollId -> [state : {"none", "live", "released"},
                                                    sock : Int, modes : SUBSET Event]]
         /\ \A e \in EpollId, s \in Int, m \in SUBSET Event :
               AfterWatch(e, s, m) \in [EpollId -> [state : {"none", "live", "released"},
                                                    sock : Int, modes : SUBSET Event]]
  BY DEF ApiTypeOK, AfterClose, AfterRelease, AfterWatch, LiveSocks, LiveEpolls,
         Status

\* The steps of open() keep the types.
LEMMA OpenStepTypeOK == TypeOK /\ OpenStep => TypeOK'
<1> SUFFICES ASSUME TypeOK, OpenStep PROVE TypeOK'
  OBVIOUS
<1> USE DEF TypeOK, PcTypeOK, ApiTypeOK, At, Goto, Return, WriteEidCleanUp, BreakLoop,
            ContinueLoop, openOthers, members, CloseAttempt, Event, Status
<1>0. ApiTypeOK
  OBVIOUS
<1>h. /\ \A s : AfterClose(s) \in [SockId -> Status]
      /\ \A e : AfterRelease(e) \in [EpollId -> [state : {"none", "live", "released"},
                                                 sock : Int, modes : SUBSET Event]]
      /\ \A e \in EpollId, s \in Int, m \in SUBSET Event :
            AfterWatch(e, s, m) \in [EpollId -> [state : {"none", "live", "released"},
                                                 sock : Int, modes : SUBSET Event]]
  BY <1>0, ApiHelpersTypeOK
<1>r. NAddrs \in Nat /\ NAddrs >= 1
  BY LibSrtAssumption
<1>1. CASE CreateSocket
  <2>1. PcTypeOK'
    BY <1>1 DEF CreateSocket, OpenPc, IoPc, SockId
  <2>2. ApiTypeOK'
    <3>1. CloseAttempt \in [SockId -> Status]
      BY <1>h
    <3>2. /\ status' = CloseAttempt \/ \E s \in SockId : status' = [CloseAttempt EXCEPT ![s] = "init"]
          /\ UNCHANGED <<ready, epoll>>
      BY <1>1 DEF CreateSocket
    <3> QED
      BY <3>1, <3>2
  <2>3. ok' \in BOOLEAN /\ expired' \in BOOLEAN /\ quitIO' \in BOOLEAN
    BY <1>1 DEF CreateSocket, SockId
  <2> QED
    BY <2>1, <2>2, <2>3, <1>1 DEF CreateSocket, SockId
<1>2. CASE SetOptionsPre
  BY <1>2, <1>h, <1>r DEF SetOptionsPre, OpenPc
<1>3. CASE CreateWriteEpoll
  BY <1>3, <1>h, <1>r DEF CreateWriteEpoll, OpenPc, EpollId
<1>4. CASE Listen
  <2>1. PcTypeOK'
    BY <1>4 DEF Listen, OpenPc, IoPc
  <2>2. ApiTypeOK'
    BY <1>4, <1>h DEF Listen
  <2>3. ok' \in BOOLEAN /\ expired' \in BOOLEAN /\ quitIO' \in BOOLEAN
    BY <1>4 DEF Listen
  <2> QED
    BY <2>1, <2>2, <2>3, <1>4 DEF Listen
<1>5. CASE Connect
  <2>1. PcTypeOK'
    BY <1>5 DEF Connect, OpenPc, IoPc
  <2>2. ApiTypeOK'
    BY <1>5, <1>h DEF Connect
  <2>3. ok' \in BOOLEAN /\ expired' \in BOOLEAN /\ quitIO' \in BOOLEAN
    BY <1>5 DEF Connect
  <2> QED
    BY <2>1, <2>2, <2>3, <1>5, LibSrtAssumption DEF Connect
<1>6. CASE OpenCheckQuit
  BY <1>6, <1>h DEF OpenCheckQuit, OpenPc
<1>7. CASE ListenPoll
  BY <1>7, <1>h DEF ListenPoll, OpenPc
<1>8. CASE ConnectPoll
  BY <1>8, <1>h, <1>r DEF ConnectPoll, OpenPc
<1>9. CASE Accept
  BY <1>9, <1>h DEF Accept, Accepted, OpenPc
<1>10. CASE SetOptionsPost
  BY <1>10, <1>h, <1>r DEF SetOptionsPost, OpenPc
<1>11. CASE GetPayloadSize
  BY <1>11, <1>h DEF GetPayloadSize, StorePayloadSize, OpenPc, PayloadSize
<1>12. CASE CreateIoEpoll
  BY <1>12, <1>h DEF CreateIoEpoll, IoModes, OpenPc, EpollId
<1>13. CASE PublishEid
  BY <1>13 DEF PublishEid, apiVars, locals, OpenPc
<1>14. CASE PublishSock
  BY <1>14, <1>h DEF PublishSock, OpenPc
<1>15. CASE GiveUp
  <2>1. PcTypeOK'
    BY <1>15 DEF GiveUp, OpenPc, IoPc
  <2>2. ApiTypeOK'
    BY <1>15, <1>h DEF GiveUp
  <2>3. ok' \in BOOLEAN /\ expired' \in BOOLEAN /\ quitIO' \in BOOLEAN
    BY <1>15 DEF GiveUp
  <2> QED
    BY <2>1, <2>2, <2>3, <1>15 DEF GiveUp
<1> QED
  BY <1>1, <1>2, <1>3, <1>4, <1>5, <1>6, <1>7, <1>8, <1>9, <1>10, <1>11, <1>12,
     <1>13, <1>14, <1>15 DEF OpenStep

\* ... and so does every other step.
LEMMA StepTypeOK == TypeOK /\ [Next]_vars => TypeOK'
<1> SUFFICES ASSUME TypeOK, [Next]_vars PROVE TypeOK'
  OBVIOUS
<1> USE DEF TypeOK, PcTypeOK, ApiTypeOK, At, Goto, Return, members, apiVars, locals, Event, Status
<1>0. ApiTypeOK
  OBVIOUS
<1>1. CASE OpenStart
  <2>1. PcTypeOK'
    BY <1>1 DEF OpenStart, OpenPc, IoPc
  <2>2. ApiTypeOK'
    BY <1>1 DEF OpenStart
  <2>3. ok' \in BOOLEAN /\ expired' \in BOOLEAN /\ quitIO' \in BOOLEAN
    BY <1>1 DEF OpenStart
  <2> QED
    BY <2>1, <2>2, <2>3, <1>1, LibSrtAssumption DEF OpenStart
<1>2. CASE OpenStep
  BY <1>2, OpenStepTypeOK
<1>3. ASSUME NEW o \in {"read", "write"}, IoStart(o) PROVE TypeOK'
  BY <1>3 DEF IoStart, IoPc
<1>4. CASE IoStep
  <2>1. CASE IoCheckQuit
    <3>1. PcTypeOK'
      BY <2>1 DEF IoCheckQuit, OpenPc, IoPc, IoReturn
    <3>2. ApiTypeOK'
      BY <2>1 DEF IoCheckQuit, IoReturn
    <3>3. ok' \in BOOLEAN /\ expired' \in BOOLEAN /\ quitIO' \in BOOLEAN
      BY <2>1 DEF IoCheckQuit, IoReturn
    <3> QED
      BY <3>1, <3>2, <3>3, <2>1 DEF IoCheckQuit, IoReturn
  <2>2. CASE IoPoll
    <3>1. PcTypeOK'
      BY <2>2 DEF IoPoll, OpenPc, IoPc, IoReturn
    <3>2. ApiTypeOK'
      BY <2>2 DEF IoPoll, IoReturn
    <3>3. ok' \in BOOLEAN /\ expired' \in BOOLEAN /\ quitIO' \in BOOLEAN
      BY <2>2 DEF IoPoll, IoReturn
    <3> QED
      BY <3>1, <3>2, <3>3, <2>2 DEF IoPoll, IoReturn
  <2>3. CASE IoCall
    <3>1. PcTypeOK'
      BY <2>3 DEF IoCall, OpenPc, IoPc, IoReturn, SockId
    <3>2. ApiTypeOK'
      BY <2>3 DEF IoCall, IoReturn, SockId
    <3>3. ok' \in BOOLEAN /\ expired' \in BOOLEAN /\ quitIO' \in BOOLEAN
      BY <2>3 DEF IoCall, IoReturn, SockId
    <3> QED
      BY <3>1, <3>2, <3>3, <2>3 DEF IoCall, IoReturn, SockId
  <2> QED
    BY <1>4, <2>1, <2>2, <2>3 DEF IoStep
<1>5. ASSUME NEW t \in Thread, CloseStart(t) PROVE TypeOK'
  BY <1>5 DEF CloseStart, ClosePc
<1>6. ASSUME NEW t \in Thread, CloseStep(t) PROVE TypeOK'
  BY <1>6, <1>0, ApiHelpersTypeOK DEF CloseStep, CloseEpoll, CloseSock, ClosePc
<1>7. CASE Quit
  BY <1>7 DEF Quit
<1>8. CASE ClockTick
  BY <1>8 DEF ClockTick
<1>9. CASE NetworkStep
  BY <1>9 DEF NetworkStep, Network, ConnectUp, Break, Arrive, Drain, Incoming, SockId
<1>10. CASE UNCHANGED vars
  BY <1>10 DEF vars
<1> QED
  BY <1>1, <1>2, <1>3, <1>4, <1>5, <1>6, <1>7, <1>8, <1>9, <1>10 DEF Next

\* Every variable keeps its type, whatever the two threads and the network do.
THEOREM TypeCorrect == Spec => []TypeOK
  BY InitTypeOK, StepTypeOK, PTL DEF Spec

-----------------------------------------------------------------------------
(* What the library calls do to the sets of live sockets and epolls *)

\* srt_close takes the socket out of those alive, and no other.
LEMMA LiveAfterClose ==
  ASSUME TypeOK, NEW s \in Int, status' = AfterClose(s)
  PROVE  LiveSocks' = LiveSocks \ {s}
  BY DEF TypeOK, ApiTypeOK, AfterClose, LiveSocks

\* srt_epoll_release takes the epoll out of those alive, and no other.
LEMMA LiveAfterRelease ==
  ASSUME TypeOK, NEW e \in Int, epoll' = AfterRelease(e)
  PROVE  LiveEpolls' = LiveEpolls \ {e}
  BY DEF TypeOK, ApiTypeOK, AfterRelease, LiveEpolls

\* srt_epoll_create adds the new epoll to those alive.
LEMMA LiveAfterWatch ==
  ASSUME TypeOK, NEW e \in EpollId, NEW s, NEW m, epoll' = AfterWatch(e, s, m)
  PROVE  LiveEpolls' = LiveEpolls \cup {e}
  BY DEF TypeOK, ApiTypeOK, AfterWatch, LiveEpolls

\* A socket whose state changes to another live one is the only one concerned.
LEMMA LiveAfterChange ==
  ASSUME TypeOK, NEW s, NEW v, v \notin {"none", "closed"}, status' = [status EXCEPT ![s] = v]
  PROVE  LiveSocks' \subseteq LiveSocks \cup {s}
  BY DEF TypeOK, ApiTypeOK, LiveSocks

\* -1 and 0, which the code takes for "none", are never alive.
LEMMA LiveIsPositive == \A n \in Int : n <= 0 => n \notin LiveSocks /\ n \notin LiveEpolls
  BY SrtApiAssumption DEF LiveSocks, LiveEpolls, SockId, EpollId

\* Where the library's variable stays, so does the set.
LEMMA LiveUnchanged == /\ status' = status => LiveSocks' = LiveSocks
                       /\ epoll' = epoll => LiveEpolls' = LiveEpolls
  BY DEF LiveSocks, LiveEpolls

\* Closing the socket of the attempt leaves no other one alive while opening.
LEMMA LiveAfterCloseAttempt ==
  ASSUME TypeOK, status' = CloseAttempt
  PROVE  LiveSocks' = LiveSocks \ {sock}
<1>1. CASE sock > 0
  BY <1>1, LiveAfterClose DEF CloseAttempt, TypeOK
<1>2. CASE ~(sock > 0)
  BY <1>2, LiveIsPositive, LiveUnchanged DEF CloseAttempt, TypeOK
<1> QED
  BY <1>1, <1>2

\* The guard writeEidCleanUp takes write_eid out of the epolls alive.
LEMMA LiveAfterCleanUp ==
  ASSUME TypeOK, WriteEidCleanUp
  PROVE  LiveEpolls' = LiveEpolls \ {writeEid} /\ writeEid' = -1
<1>1. CASE writeEid > 0
  BY <1>1, LiveAfterRelease DEF WriteEidCleanUp, TypeOK
<1>2. CASE ~(writeEid > 0)
  BY <1>2, LiveIsPositive, LiveUnchanged DEF WriteEidCleanUp, TypeOK
<1> QED
  BY <1>1, <1>2

-----------------------------------------------------------------------------
(* The inductive invariant *)

\* A new handle holds nothing.
LEMMA InitIInv == Init => IInv
<1> SUFFICES ASSUME Init PROVE IInv
  OBVIOUS
<1>1. LiveSocks = {} /\ LiveEpolls = {}
  BY DEF Init, ApiInit, LiveSocks, LiveEpolls
<1> QED
  BY <1>1, InitTypeOK DEF Init, IInv, LocalsInv, OpInv, QuitInv, NoSocketLeak, NoEpollLeak,
     NothingHeldAtRest, Reopenable, Opening, At, OpenPc, IoPc, ClosePc

\* The two ways out of an attempt: both drop write_eid, neither leaves open().
LEMMA OutOfAttempt ==
  ASSUME TypeOK, BreakLoop \/ ContinueLoop
  PROVE  /\ LiveEpolls' = LiveEpolls \ {writeEid} /\ writeEid' = -1
         /\ pc'["owner"] \in {"socket", "giveUp"} /\ pc'["ctl"] = pc["ctl"]
<1>1. WriteEidCleanUp
  BY DEF BreakLoop, ContinueLoop
<1>2. pc'["owner"] \in {"socket", "giveUp"} /\ pc'["ctl"] = pc["ctl"]
  BY DEF BreakLoop, ContinueLoop, Goto, TypeOK, PcTypeOK
<1> QED
  BY <1>1, <1>2, LiveAfterCleanUp

\* A step of open() that does not leave it and publishes nothing preserves the
\* invariant when it keeps what it holds in sock, writeEid and waitEid.
LEMMA AttemptKeepsIInv ==
  ASSUME IInv, TypeOK', Opening, Opening', eid = -1, pc'["ctl"] = pc["ctl"],
         UNCHANGED <<quitIO, sockFd, eid, op, ok, lateIO>>,
         pc'["owner"] \in {"socket", "preOptions", "writeEpoll", "giveUp"} => writeEid' = -1,
         pc'["owner"] \in {"listen", "accept"} => Mode = "LISTENER",
         Mode # "LISTENER" => LiveSocks' \subseteq {sock'},
         LiveEpolls' \subseteq {writeEid', IF pc'["owner"] = "publishEid" THEN waitEid' ELSE -1}
  PROVE  IInv'
<1> USE DEF Opening, At
<1>1. LocalsInv'
  BY DEF IInv, LocalsInv, OpenPc
<1>2. OpInv'
  BY DEF IInv, OpInv, OpenPc, IoPc, ClosePc, Reopenable
<1>3. QuitInv'
  BY DEF IInv, QuitInv, OpenPc, ClosePc
<1>4. NoSocketLeak' /\ NoEpollLeak'
  BY DEF IInv, NoSocketLeak, NoEpollLeak
<1>5. NothingHeldAtRest'
  BY DEF NothingHeldAtRest, Reopenable, OpenPc
<1> QED
  BY <1>1, <1>2, <1>3, <1>4, <1>5 DEF IInv

\* The steps of open(), one by one.
LEMMA OpenStepIInv ==
  ASSUME IInv, OpenStep, TypeOK' PROVE IInv'
<1> USE DEF At, Opening, openOthers, members
<1>t. TypeOK
  BY DEF IInv
<1>o. Opening
  BY DEF OpenStep, CreateSocket, SetOptionsPre, CreateWriteEpoll, Listen, Connect,
     OpenCheckQuit, ListenPoll, ConnectPoll, Accept, SetOptionsPost, GetPayloadSize,
     CreateIoEpoll, PublishEid, PublishSock, GiveUp, OpenPc
<1>h. /\ sockFd = -1 /\ (eid # -1 => At("owner", "publishSock"))
      /\ Mode # "LISTENER" => LiveSocks \subseteq {sock}
      /\ LiveEpolls \subseteq {writeEid, eid, IF At("owner", "publishEid") THEN waitEid ELSE eid}
      /\ pc["owner"] \in {"socket", "preOptions", "writeEpoll", "giveUp"} => writeEid = -1
      /\ pc["owner"] \in {"listen", "accept"} => Mode = "LISTENER"
  BY <1>o, <1>t, LiveIsPositive DEF IInv, LocalsInv, NoSocketLeak, NoEpollLeak
<1>p. /\ \A l : Goto("owner", l) => pc'["owner"] = l /\ pc'["ctl"] = pc["ctl"]
      /\ -1 \notin LiveEpolls
  BY <1>t, LiveIsPositive DEF TypeOK, PcTypeOK, Goto
<1>b. ASSUME BreakLoop \/ ContinueLoop, UNCHANGED <<sock, eid, sockFd, quitIO, op, ok, lateIO>>,
             LiveSocks' \subseteq LiveSocks \cup {sock}, ~At("owner", "publishEid"), eid = -1
      PROVE  IInv'
  <2>1. /\ LiveEpolls' = LiveEpolls \ {writeEid} /\ writeEid' = -1
        /\ pc'["owner"] \in {"socket", "giveUp"} /\ pc'["ctl"] = pc["ctl"]
    BY <1>b, <1>t, OutOfAttempt
  <2>2. LiveEpolls' = {}
    BY <2>1, <1>b, <1>h, <1>p
  <2>3. Opening'
    BY <2>1 DEF OpenPc
  <2> QED
    BY <2>1, <2>2, <2>3, <1>b, <1>h, <1>o, AttemptKeepsIInv
<1>1. CASE CreateSocket
  <2>1. PICK closed \in {CloseAttempt} :
          \/ \E s \in SockId : /\ status' = [closed EXCEPT ![s] = "init"]
                              /\ sock' = s /\ pc'["owner"] = "preOptions"
          \/ status' = closed /\ sock' = -1 /\ pc'["owner"] = "giveUp"
    BY <1>1, <1>p DEF CreateSocket
  <2>2. /\ pc'["ctl"] = pc["ctl"] /\ eid = -1
        /\ UNCHANGED <<epoll, writeEid, waitEid, quitIO, sockFd, eid, op, ok, lateIO>>
    BY <1>1, <1>p, <1>h DEF CreateSocket
  <2>3. {s \in SockId : closed[s] \notin {"none", "closed"}} = LiveSocks \ {sock}
    <3>1. CASE sock > 0
      BY <3>1, <2>1, <1>t DEF CloseAttempt, AfterClose, LiveSocks, TypeOK, ApiTypeOK
    <3>2. CASE ~(sock > 0)
      <4>1. closed = status /\ sock \notin LiveSocks
        BY <3>2, <2>1, <1>t, LiveIsPositive DEF CloseAttempt, TypeOK
      <4> QED
        BY <4>1 DEF LiveSocks
    <3> QED
      BY <3>1, <3>2
  <2>4. Mode # "LISTENER" => LiveSocks' \subseteq {sock'}
    <3>1. closed \in [SockId -> Status]
      BY <2>1, <1>t, ApiHelpersTypeOK DEF CloseAttempt, TypeOK, ApiTypeOK
    <3> QED
      BY <2>1, <2>3, <1>h, <3>1 DEF LiveSocks
  <2>5. LiveEpolls' = {} /\ writeEid' = -1
    BY <2>2, <1>1, <1>h, <1>p, LiveUnchanged DEF CreateSocket
  <2>6. Opening' /\ pc'["owner"] \in {"preOptions", "giveUp"}
    BY <2>1 DEF OpenPc
  <2> QED
    BY <2>2, <2>4, <2>5, <2>6, <1>o, AttemptKeepsIInv
<1>2. CASE SetOptionsPre
  <2>1. CASE BreakLoop \/ ContinueLoop
    BY <2>1, <1>2, <1>b, <1>h, LiveUnchanged DEF SetOptionsPre
  <2>2. CASE Goto("owner", "writeEpoll") /\ UNCHANGED <<epoll, writeEid, res>>
    BY <2>2, <1>2, <1>h, <1>p, <1>o, AttemptKeepsIInv, LiveUnchanged DEF SetOptionsPre, OpenPc
  <2> QED
    BY <1>2, <2>1, <2>2 DEF SetOptionsPre
<1>3. CASE CreateWriteEpoll
  <2>1. CASE BreakLoop
    BY <2>1, <1>3, <1>b, <1>h, LiveUnchanged DEF CreateWriteEpoll
  <2>2. CASE \E e \in EpollId :
             /\ FreshEpoll(e)
             /\ epoll' = AfterWatch(e, sock, {"ERR", "OUT"})
             /\ writeEid' = e
             /\ Goto("owner", IF Mode = "LISTENER" THEN "listen" ELSE "connect")
    <3>1. LiveEpolls' = LiveEpolls \cup {writeEid'}
      BY <2>2, <1>t, LiveAfterWatch
    <3>2. /\ pc'["owner"] = IF Mode = "LISTENER" THEN "listen" ELSE "connect"
          /\ pc'["ctl"] = pc["ctl"]
      BY <2>2, <1>p
    <3>3. Opening' /\ LiveSocks' = LiveSocks
      BY <3>2, <1>3, LiveUnchanged DEF OpenPc, CreateWriteEpoll
    <3> QED
      BY <3>1, <3>2, <3>3, <1>3, <1>h, <1>p, <1>o, AttemptKeepsIInv DEF CreateWriteEpoll
  <2> QED
    BY <1>3, <2>1, <2>2 DEF CreateWriteEpoll
<1>4. CASE Listen
  <2>1. CASE BreakLoop /\ UNCHANGED <<status, expired>>
    BY <2>1, <1>4, <1>b, <1>h, LiveUnchanged DEF Listen
  <2>2. CASE /\ status' = [status EXCEPT ![sock] = "listening"]
             /\ Goto("owner", "openCheck")
             /\ UNCHANGED <<epoll, writeEid>>
    BY <2>2, <1>4, <1>h, <1>p, <1>o, AttemptKeepsIInv, LiveUnchanged DEF Listen, OpenPc
  <2> QED
    BY <1>4, <2>1, <2>2 DEF Listen
<1>5. CASE Connect
  <2>1. CASE (BreakLoop \/ ContinueLoop) /\ UNCHANGED status
    BY <2>1, <1>5, <1>b, <1>h, LiveUnchanged DEF Connect
  <2>2. CASE /\ status' = [status EXCEPT ![sock] = "connecting"]
             /\ Goto("owner", "openCheck")
             /\ UNCHANGED <<epoll, writeEid>>
    <3>1. LiveSocks' \subseteq LiveSocks \cup {sock}
      BY <2>2, <1>t, LiveAfterChange
    <3> QED
      BY <3>1, <2>2, <1>5, <1>h, <1>p, <1>o, AttemptKeepsIInv, LiveUnchanged DEF Connect, OpenPc
  <2> QED
    BY <1>5, <2>1, <2>2 DEF Connect
<1>6. CASE OpenCheckQuit
  <2>1. CASE BreakLoop
    BY <2>1, <1>6, <1>b, <1>h, LiveUnchanged DEF OpenCheckQuit
  <2>2. CASE Goto("owner", "openPoll") /\ UNCHANGED <<epoll, writeEid>>
    BY <2>2, <1>6, <1>h, <1>p, <1>o, AttemptKeepsIInv, LiveUnchanged DEF OpenCheckQuit, OpenPc
  <2> QED
    BY <1>6, <2>1, <2>2 DEF OpenCheckQuit
<1>7. CASE ListenPoll
  <2>1. CASE BreakLoop
    BY <2>1, <1>7, <1>b, <1>h, LiveUnchanged DEF ListenPoll
  <2>2. CASE /\ \E l \in {"accept", "openCheck"} : Goto("owner", l)
             /\ UNCHANGED <<epoll, writeEid>>
    BY <2>2, <1>7, <1>h, <1>p, <1>o, AttemptKeepsIInv, LiveUnchanged DEF ListenPoll, OpenPc
  <2> QED
    BY <1>7, <2>1, <2>2 DEF ListenPoll
<1>8. CASE ConnectPoll
  <2>1. CASE BreakLoop \/ ContinueLoop
    BY <2>1, <1>8, <1>b, <1>h, LiveUnchanged DEF ConnectPoll
  <2>2. CASE Goto("owner", "openCheck") /\ UNCHANGED <<epoll, writeEid>>
    BY <2>2, <1>8, <1>h, <1>p, <1>o, AttemptKeepsIInv, LiveUnchanged DEF ConnectPoll, OpenPc
  <2>3. CASE Goto("owner", "postOptions") /\ WriteEidCleanUp
    BY <2>3, <1>8, <1>h, <1>p, <1>o, <1>t, AttemptKeepsIInv, LiveUnchanged, LiveAfterCleanUp
    DEF ConnectPoll, OpenPc
  <2> QED
    BY <1>8, <2>1, <2>2, <2>3 DEF ConnectPoll
<1>9. CASE Accept
  <2>0. Mode = "LISTENER" /\ eid = -1
    BY <1>9, <1>h DEF Accept
  <2>1. CASE BreakLoop /\ UNCHANGED <<status, sock>>
    BY <2>1, <1>9, <1>b, <1>h, LiveUnchanged DEF Accept
  <2>2. CASE Goto("owner", "postOptions") /\ UNCHANGED <<epoll, writeEid>>
    BY <2>0, <2>2, <1>9, <1>h, <1>p, <1>o, AttemptKeepsIInv, LiveUnchanged
    DEF Accept, Accepted, OpenPc
  <2> QED
    BY <1>9, <2>1, <2>2 DEF Accept
<1>10. CASE SetOptionsPost
  <2>1. CASE BreakLoop \/ ContinueLoop
    BY <2>1, <1>10, <1>b, <1>h, LiveUnchanged DEF SetOptionsPost
  <2>2. CASE /\ \E l \in {"payloadSize", "ioEpoll"} : Goto("owner", l)
             /\ UNCHANGED <<epoll, writeEid>>
    BY <2>2, <1>10, <1>h, <1>p, <1>o, AttemptKeepsIInv, LiveUnchanged DEF SetOptionsPost, OpenPc
  <2> QED
    BY <1>10, <2>1, <2>2 DEF SetOptionsPost
<1>11. CASE GetPayloadSize
  <2>1. CASE BreakLoop
    BY <2>1, <1>11, <1>b, <1>h, LiveUnchanged DEF GetPayloadSize
  <2>2. CASE Goto("owner", "ioEpoll") /\ UNCHANGED <<epoll, writeEid>>
    BY <2>2, <1>11, <1>h, <1>p, <1>o, AttemptKeepsIInv, LiveUnchanged DEF GetPayloadSize, OpenPc
  <2> QED
    BY <1>11, <2>1, <2>2 DEF GetPayloadSize
<1>12. CASE CreateIoEpoll
  <2>1. CASE BreakLoop
    BY <2>1, <1>12, <1>b, <1>h, LiveUnchanged DEF CreateIoEpoll
  <2>2. CASE /\ \E e \in EpollId : epoll' = AfterWatch(e, sock, IoModes) /\ waitEid' = e
             /\ Goto("owner", "publishEid")
             /\ UNCHANGED writeEid
    <3>1. LiveEpolls' = LiveEpolls \cup {waitEid'}
      BY <2>2, <1>t, LiveAfterWatch
    <3> QED
      BY <3>1, <2>2, <1>12, <1>h, <1>p, <1>o, AttemptKeepsIInv, LiveUnchanged
      DEF CreateIoEpoll, OpenPc
  <2> QED
    BY <1>12, <2>1, <2>2 DEF CreateIoEpoll
<1>13. CASE PublishEid
  <2>1. /\ pc'["owner"] = "publishSock" /\ pc'["ctl"] = pc["ctl"] /\ eid' = waitEid
        /\ UNCHANGED <<apiVars, quitIO, sockFd, sock, writeEid, op, ok, lateIO>>
    BY <1>13, <1>p DEF PublishEid, locals
  <2>2. LiveSocks' = LiveSocks /\ LiveEpolls' = LiveEpolls
    BY <2>1, LiveUnchanged DEF apiVars
  <2>3. LocalsInv' /\ OpInv'
    BY <2>1, <1>13 DEF PublishEid, IInv, LocalsInv, OpInv, OpenPc, IoPc, ClosePc
  <2>4. QuitInv' /\ NoSocketLeak' /\ NothingHeldAtRest'
    BY <2>1, <2>2, <1>13
    DEF PublishEid, IInv, QuitInv, NoSocketLeak, NothingHeldAtRest, Reopenable, ClosePc
  <2>5. NoEpollLeak'
    BY <2>1, <2>2, <1>13, <1>h, <1>p DEF PublishEid, NoEpollLeak
  <2> QED
    BY <2>3, <2>4, <2>5 DEF IInv
<1>14. CASE PublishSock
  <2>1. /\ pc'["owner"] = "idle" /\ pc'["ctl"] = pc["ctl"] /\ sockFd' = sock /\ sock' = -1
        /\ ok' = TRUE /\ UNCHANGED <<status, quitIO, eid, op, lateIO>> /\ WriteEidCleanUp
    BY <1>14, <1>p DEF PublishSock, Return
  <2>2. LiveSocks' = LiveSocks /\ LiveEpolls' = LiveEpolls \ {writeEid} /\ writeEid' = -1
    BY <2>1, <1>t, LiveUnchanged, LiveAfterCleanUp
  <2>3. LocalsInv' /\ OpInv'
    BY <2>1, <2>2, <1>o DEF IInv, LocalsInv, OpInv, OpenPc, IoPc, ClosePc, Reopenable
  <2>4. QuitInv' /\ NoSocketLeak'
    BY <2>1, <2>2, <1>14, <1>h
    DEF PublishSock, IInv, QuitInv, NoSocketLeak, ClosePc
  <2>5. NothingHeldAtRest' /\ NoEpollLeak'
    BY <2>1, <2>2, <1>14, <1>h, <1>o DEF PublishSock, NothingHeldAtRest, NoEpollLeak,
       Reopenable, IInv, OpInv
  <2> QED
    BY <2>3, <2>4, <2>5 DEF IInv
<1>15. CASE GiveUp
  <2>1. /\ pc'["owner"] = "idle" /\ pc'["ctl"] = pc["ctl"] /\ sock' = -1
        /\ status' = CloseAttempt
        /\ UNCHANGED <<epoll, quitIO, sockFd, eid, writeEid, op, lateIO>>
    BY <1>15, <1>p DEF GiveUp, Return
  <2>2. LiveSocks' = LiveSocks \ {sock} /\ LiveEpolls' = LiveEpolls
    BY <2>1, <1>t, LiveUnchanged, LiveAfterCloseAttempt
  <2>3. LocalsInv' /\ OpInv'
    BY <2>1, <2>2, <1>15, <1>h DEF GiveUp, LocalsInv, OpInv, OpenPc, IoPc, ClosePc
  <2>4. QuitInv'
    BY <2>1, <1>15 DEF GiveUp, IInv, QuitInv, ClosePc
  <2>5. (Mode # "LISTENER" => LiveSocks' = {}) /\ LiveEpolls' = {}
    BY <2>2, <1>15, <1>h, <1>p DEF GiveUp
  <2>6. NoSocketLeak' /\ NoEpollLeak' /\ NothingHeldAtRest'
    BY <2>5 DEF NoSocketLeak, NoEpollLeak, NothingHeldAtRest
  <2> QED
    BY <2>3, <2>4, <2>6 DEF IInv
<1> QED
  BY <1>1, <1>2, <1>3, <1>4, <1>5, <1>6, <1>7, <1>8, <1>9, <1>10, <1>11, <1>12,
     <1>13, <1>14, <1>15 DEF OpenStep

\* Every step: open() by the lemma above, the other actions one by one.
LEMMA StepIInv ==
  ASSUME IInv, [Next]_vars PROVE IInv'
<1> USE DEF At, Opening, members, locals, apiVars
<1>t. TypeOK /\ TypeOK'
  BY StepTypeOK DEF IInv
<1>p. \A t \in Thread : \A l : Goto(t, l) =>
         pc'[t] = l /\ \A u \in Thread : u # t => pc'[u] = pc[u]
  BY <1>t DEF TypeOK, PcTypeOK, Goto
<1>c. pc["ctl"] \in {"idle"} \cup ClosePc
  BY <1>t DEF TypeOK, PcTypeOK
<1>1. CASE OpenStart
  <2>1. LiveSocks' = LiveSocks /\ LiveEpolls' = LiveEpolls /\ LiveEpolls = {}
        /\ (Mode # "LISTENER" => LiveSocks = {})
    BY <1>1, LiveUnchanged DEF OpenStart, IInv, LocalsInv, NothingHeldAtRest, Reopenable
  <2>2. /\ ~quitIO' /\ sockFd' = -1 /\ eid' = -1 /\ op' = "open" /\ lateIO' = 0 /\ ~ok'
        /\ sock' = -1 /\ writeEid' = -1
        /\ pc'["owner"] \in {"socket", "idle"} /\ pc'["ctl"] = "idle"
    <3>1. sock = -1 /\ writeEid = -1
      BY <1>1 DEF OpenStart, IInv, LocalsInv, OpenPc
    <3> QED
      BY <3>1, <1>1, <1>p DEF OpenStart, Return
  <2>3. LocalsInv' /\ OpInv' /\ QuitInv'
    BY <2>2 DEF LocalsInv, OpInv, QuitInv, OpenPc, IoPc, ClosePc
  <2>4. NoSocketLeak' /\ NoEpollLeak' /\ NothingHeldAtRest'
    BY <2>1 DEF NoSocketLeak, NoEpollLeak, NothingHeldAtRest
  <2> QED
    BY <1>t, <2>3, <2>4 DEF IInv
<1>2. CASE OpenStep
  BY <1>2, <1>t, OpenStepIInv
<1>i. ASSUME UNCHANGED <<epoll, quitIO, sockFd, eid, sock, writeEid>>, LiveSocks' = LiveSocks,
             pc'["ctl"] = pc["ctl"], pc["owner"] \notin OpenPc \cup ClosePc \cup {"new"},
             op' \in {"read", "write"}, pc'["owner"] \in IoPc \cup {"idle"},
             QuitInv'
      PROVE  IInv'
  <2>1. LiveEpolls' = LiveEpolls
    BY <1>i, LiveUnchanged
  <2>2. LocalsInv' /\ OpInv'
    BY <1>i, <2>1 DEF IInv, LocalsInv, OpInv, OpenPc, IoPc, ClosePc, Reopenable
  <2>3. NoSocketLeak' /\ NothingHeldAtRest'
    BY <1>i DEF IInv, NoSocketLeak, NothingHeldAtRest, Reopenable
  <2>4. NoEpollLeak'
    BY <1>i, <2>1 DEF IInv, NoEpollLeak, OpenPc, IoPc
  <2> QED
    BY <1>t, <1>i, <2>2, <2>3, <2>4 DEF IInv
<1>3. ASSUME NEW o \in {"read", "write"}, IoStart(o) PROVE IInv'
  <2>1. pc'["owner"] = "ioCheck" /\ pc'["ctl"] = pc["ctl"] /\ op' = o
        /\ UNCHANGED <<status, epoll, quitIO, sockFd, eid, sock, writeEid, lateIO>>
    BY <1>3, <1>p DEF IoStart
  <2>2. QuitInv'
    BY <2>1, <1>3 DEF IoStart, IInv, QuitInv, ClosePc
  <2> QED
    BY <2>1, <2>2, <1>3, <1>i, LiveUnchanged DEF IoStart, OpenPc, ClosePc, IoPc
<1>4. CASE IoStep
  <2>o. op \in {"read", "write"} /\ pc["owner"] \in IoPc
    BY <1>4 DEF IoStep, IoCheckQuit, IoPoll, IoCall, IInv, OpInv, IoPc
  <2>1. CASE IoCheckQuit
    <3>1. /\ pc'["owner"] = IF quitIO THEN "idle" ELSE "ioPoll"
          /\ pc'["ctl"] = pc["ctl"]
          /\ UNCHANGED <<status, epoll, quitIO, sockFd, eid, sock, writeEid, op, lateIO>>
      BY <2>1, <1>p DEF IoCheckQuit, IoReturn, Return, Interrupted
    <3>2. QuitInv'
      BY <3>1, <2>1 DEF IoCheckQuit, IInv, QuitInv, ClosePc
    <3> QED
      BY <3>1, <3>2, <2>o, <1>i, LiveUnchanged DEF OpenPc, ClosePc, IoPc
  <2>2. CASE IoPoll
    <3>1. /\ pc'["owner"] \in {"idle", "ioCheck", "ioCall"}
          /\ pc'["ctl"] = pc["ctl"]
          /\ UNCHANGED <<status, epoll, quitIO, sockFd, eid, sock, writeEid, op, lateIO>>
      BY <2>2, <1>p DEF IoPoll, IoReturn, Return
    <3>2. QuitInv'
      BY <3>1, <2>2 DEF IoPoll, IInv, QuitInv, ClosePc
    <3> QED
      BY <3>1, <3>2, <2>o, <1>i, LiveUnchanged DEF OpenPc, ClosePc, IoPc
  <2>3. CASE IoCall
    <3>1. /\ pc'["owner"] = "idle" /\ pc'["ctl"] = pc["ctl"]
          /\ lateIO' = IF quitIO THEN lateIO + 1 ELSE lateIO
          /\ UNCHANGED <<status, epoll, quitIO, sockFd, eid, sock, writeEid, op>>
      BY <2>3, <1>p DEF IoCall, IoReturn, Return
    <3>2. QuitInv'
      BY <3>1, <2>3 DEF IoCall, IInv, QuitInv, ClosePc
    <3> QED
      BY <3>1, <3>2, <2>o, <1>i, LiveUnchanged DEF OpenPc, ClosePc, IoPc
  <2> QED
    BY <1>4, <2>1, <2>2, <2>3 DEF IoStep
<1>5. ASSUME NEW t \in Thread, CloseStart(t) PROVE IInv'
  <2>1. /\ pc'[t] = "releaseEpoll" /\ pc[t] = "idle" /\ quitIO'
        /\ \A u \in Thread : u # t => pc'[u] = pc[u]
        /\ pc["owner"] # "new"
        /\ (t = "owner" => op' = "close") /\ (t # "owner" => op' = op /\ ok' = ok)
        /\ UNCHANGED <<status, epoll, sockFd, eid, sock, writeEid, waitEid, lateIO>>
    BY <1>5, <1>p DEF CloseStart
  <2>2. LiveSocks' = LiveSocks /\ LiveEpolls' = LiveEpolls
    BY <2>1, LiveUnchanged
  <2>3. LocalsInv' /\ OpInv'
    BY <2>1, <2>2 DEF IInv, LocalsInv, OpInv, OpenPc, IoPc, ClosePc, Reopenable
  <2>4. QuitInv'
    BY <2>1, <1>c DEF IInv, QuitInv
  <2>5. NoSocketLeak' /\ NothingHeldAtRest' /\ NoEpollLeak'
    BY <2>1, <2>2 DEF IInv, NoSocketLeak, NothingHeldAtRest, NoEpollLeak, Reopenable
  <2> QED
    BY <1>t, <2>3, <2>4, <2>5 DEF IInv
<1>6. ASSUME NEW t \in Thread, CloseStep(t) PROVE IInv'
  <2>1. CASE CloseEpoll(t)
    <3>1. /\ pc[t] = "releaseEpoll" /\ pc'[t] = "closeSock"
          /\ \A u \in Thread : u # t => pc'[u] = pc[u]
          /\ UNCHANGED <<status, quitIO, sockFd, sock, writeEid, waitEid, op, ok, lateIO>>
      BY <2>1, <1>p DEF CloseEpoll
    <3>2. /\ LiveEpolls' = LiveEpolls \ {eid} /\ LiveSocks' = LiveSocks
          /\ eid' = IF eid > 0 THEN -1 ELSE eid
      <4>1. CASE eid > 0
        BY <4>1, <2>1, <1>t, LiveAfterRelease, LiveUnchanged DEF CloseEpoll, TypeOK
      <4>2. CASE ~(eid > 0)
        BY <4>2, <2>1, <1>t, LiveIsPositive, LiveUnchanged DEF CloseEpoll, TypeOK
      <4> QED
        BY <4>1, <4>2
    <3>3. LocalsInv'
      BY <3>1, <3>2, <1>c DEF IInv, LocalsInv, OpenPc, ClosePc
    <3>4. OpInv'
      <4>1. CASE t = "owner"
        <5>1. writeEid = -1 /\ -1 \notin LiveEpolls /\ op = "close"
          BY <3>1, <4>1, LiveIsPositive DEF IInv, LocalsInv, OpInv, OpenPc, ClosePc
        <5>2. LiveEpolls' = {}
          BY <5>1, <4>1, <3>1, <3>2 DEF IInv, NoEpollLeak
        <5> QED
          BY <5>1, <5>2, <4>1, <3>1 DEF OpInv, OpenPc, IoPc, ClosePc, Reopenable
      <4>2. CASE t # "owner"
        BY <4>2, <3>1, <3>2 DEF IInv, OpInv, Reopenable
      <4> QED
        BY <4>1, <4>2
    <3>5. QuitInv'
      BY <3>1 DEF IInv, QuitInv, ClosePc
    <3>6. NoSocketLeak' /\ NothingHeldAtRest'
      BY <3>1, <3>2 DEF IInv, NoSocketLeak, NothingHeldAtRest, Reopenable
    <3>7. NoEpollLeak'
      BY <3>1, <3>2 DEF IInv, NoEpollLeak
    <3> QED
      BY <1>t, <3>3, <3>4, <3>5, <3>6, <3>7 DEF IInv
  <2>2. CASE CloseSock(t)
    <3>1. /\ pc[t] = "closeSock" /\ pc'[t] = "idle"
          /\ \A u \in Thread : u # t => pc'[u] = pc[u]
          /\ UNCHANGED <<epoll, quitIO, eid, sock, writeEid, waitEid, op, ok, lateIO>>
      BY <2>2, <1>p DEF CloseSock
    <3>2. /\ LiveSocks' = LiveSocks \ {sockFd} /\ LiveEpolls' = LiveEpolls
          /\ sockFd' = IF sockFd > 0 THEN -1 ELSE sockFd
      <4>1. CASE sockFd > 0
        BY <4>1, <2>2, <1>t, LiveAfterClose, LiveUnchanged DEF CloseSock, TypeOK
      <4>2. CASE ~(sockFd > 0)
        BY <4>2, <2>2, <1>t, LiveIsPositive, LiveUnchanged DEF CloseSock, TypeOK
      <4> QED
        BY <4>1, <4>2
    <3>3. LocalsInv'
      BY <3>1, <3>2, <1>c DEF IInv, LocalsInv, OpenPc, ClosePc
    <3>4. OpInv'
      BY <3>1, <3>2, <1>c DEF IInv, OpInv, OpenPc, IoPc, ClosePc
    <3>5. QuitInv'
      BY <3>1 DEF IInv, QuitInv, ClosePc
    <3>6. NoSocketLeak' /\ NoEpollLeak'
      BY <3>1, <3>2 DEF IInv, NoSocketLeak, NoEpollLeak
    <3>7. NothingHeldAtRest'
      <4>1. CASE t = "owner"
        <5>1. sock = -1 /\ LiveEpolls = {}
          BY <3>1, <4>1 DEF IInv, LocalsInv, OpInv, OpenPc
        <5>2. Mode # "LISTENER" => LiveSocks' = {}
          BY <5>1, <3>2, <1>t, LiveIsPositive DEF IInv, NoSocketLeak, TypeOK
        <5> QED
          BY <5>1, <5>2, <3>2 DEF NothingHeldAtRest
      <4>2. CASE t # "owner"
        BY <4>2, <3>1, <3>2 DEF IInv, NothingHeldAtRest, Reopenable
      <4> QED
        BY <4>1, <4>2
    <3> QED
      BY <1>t, <3>3, <3>4, <3>5, <3>6, <3>7 DEF IInv
  <2> QED
    BY <1>6, <2>1, <2>2 DEF CloseStep
<1>s. ASSUME UNCHANGED <<epoll, sockFd, eid, sock, writeEid, waitEid, pc, op, ok, lateIO>>,
             LiveSocks' = LiveSocks, quitIO' = quitIO \/ quitIO' = TRUE
      PROVE  IInv'
  <2>1. LiveEpolls' = LiveEpolls
    BY <1>s, LiveUnchanged
  <2>2. LocalsInv' /\ OpInv' /\ QuitInv'
    BY <1>s, <2>1 DEF IInv, LocalsInv, OpInv, QuitInv, Reopenable
  <2>3. NoSocketLeak' /\ NoEpollLeak' /\ NothingHeldAtRest'
    BY <1>s, <2>1 DEF IInv, NoSocketLeak, NoEpollLeak, NothingHeldAtRest, Reopenable
  <2> QED
    BY <1>t, <2>2, <2>3 DEF IInv
<1>7. CASE Quit
  BY <1>7, <1>s, LiveUnchanged DEF Quit
<1>8. CASE ClockTick
  BY <1>8, <1>s, LiveUnchanged DEF ClockTick
<1>9. CASE NetworkStep
  <2>1. LiveSocks' = LiveSocks
    BY <1>9, <1>t DEF NetworkStep, Network, ConnectUp, Break, Arrive, Drain, Incoming,
       LiveSocks, TypeOK, ApiTypeOK
  <2>2. UNCHANGED <<epoll, quitIO, sockFd, eid, sock, writeEid, waitEid, pc, op, ok, lateIO>>
    BY <1>9 DEF NetworkStep, Network, ConnectUp, Break, Arrive, Drain, Incoming
  <2> QED
    BY <2>1, <2>2, <1>s
<1>10. CASE UNCHANGED vars
  BY <1>10, <1>s, LiveUnchanged DEF vars
<1> QED
  BY <1>1, <1>2, <1>3, <1>4, <1>5, <1>6, <1>7, <1>8, <1>9, <1>10 DEF Next

\* The invariant above holds of every behaviour.
THEOREM Invariance == Spec => []IInv
<1>1. IInv /\ [Next]_vars => IInv'
  BY StepIInv
<1> QED
  BY <1>1, InitIInv, PTL DEF Spec

\* The handle can close every socket it has open, for any number of addresses.
THEOREM SocketsNotLeaked == Spec => []NoSocketLeak
<1>1. IInv => NoSocketLeak
  BY DEF IInv
<1> QED
  BY <1>1, Invariance, PTL

\* ... and release every epoll instance.
THEOREM EpollsNotLeaked == Spec => []NoEpollLeak
<1>1. IInv => NoEpollLeak
  BY DEF IInv
<1> QED
  BY <1>1, Invariance, PTL

\* After a failed open() or the owner's close() nothing is left open, so that
\* the next open(), which forgets sockFd and eid, forgets nothing.
THEOREM NothingHeld == Spec => []NothingHeldAtRest
<1>1. IInv => NothingHeldAtRest
  BY DEF IInv
<1> QED
  BY <1>1, Invariance, PTL

\* One message at most is handed to SRT after quit() or close().
THEOREM OneLateMessage == Spec => []AtMostOneIoAfterQuit
<1>1. IInv => AtMostOneIoAfterQuit
  BY DEF IInv, QuitInv, AtMostOneIoAfterQuit
<1> QED
  BY <1>1, Invariance, PTL

-----------------------------------------------------------------------------
(* The listener *)

\* What makes it inductive: past libsrt_listen the attempt is on socket 0, so open()
\* never comes to publish it.
ListenerInv ==
    Mode = "LISTENER" =>
        /\ pc["owner"] \in {"postOptions", "payloadSize", "ioEpoll"} => sock = 0
        /\ pc["owner"] \notin {"publishEid", "publishSock"}
        /\ ~(op = "open" /\ ok)

\* A step of open() keeps it: SRT refuses socket 0.
LEMMA OpenStepListener ==
  ASSUME TypeOK, OpInv, ListenerInv, OpenStep, Mode = "LISTENER" PROVE ListenerInv'
<1>p. \A l : Goto("owner", l) => pc'["owner"] = l
  BY DEF TypeOK, PcTypeOK, Goto
<1>z. 0 \notin LiveSocks
  BY SrtApiAssumption DEF LiveSocks, SockId
<1>k. ~ok /\ op = "open"
  BY DEF OpInv, Opening, OpenStep, CreateSocket, SetOptionsPre, CreateWriteEpoll, Listen, Connect,
     OpenCheckQuit, ListenPoll, ConnectPoll, Accept, SetOptionsPost, GetPayloadSize,
     CreateIoEpoll, PublishEid, PublishSock, GiveUp, OpenPc, At
<1> USE DEF ListenerInv, At, openOthers
<1>1. CASE CreateSocket \/ SetOptionsPre \/ CreateWriteEpoll \/ Listen \/ Connect \/ OpenCheckQuit
  BY <1>1, <1>p, <1>k DEF CreateSocket, SetOptionsPre, CreateWriteEpoll, Listen, Connect,
     OpenCheckQuit, BreakLoop, ContinueLoop
<1>2. CASE ListenPoll \/ ConnectPoll \/ PublishEid \/ PublishSock
  BY <1>2, <1>p, <1>k DEF ListenPoll, ConnectPoll, PublishEid, PublishSock, BreakLoop
<1>3. CASE Accept
  BY <1>3, <1>p, <1>k DEF Accept, Accepted, BreakLoop
<1>4. CASE SetOptionsPost
  BY <1>4, <1>p, <1>k DEF SetOptionsPost, BreakLoop, ContinueLoop
<1>5. CASE GetPayloadSize \/ CreateIoEpoll
  BY <1>5, <1>p, <1>k, <1>z DEF GetPayloadSize, CreateIoEpoll, BreakLoop
<1>6. CASE GiveUp
  BY <1>6, <1>p, <1>k DEF GiveUp, Return
<1> QED
  BY <1>1, <1>2, <1>3, <1>4, <1>5, <1>6 DEF OpenStep

\* Every other step leaves open() alone, or starts it.
LEMMA StepListener ==
  ASSUME TypeOK, OpInv, ListenerInv, [Next]_vars PROVE ListenerInv'
<1> SUFFICES ASSUME Mode = "LISTENER" PROVE ListenerInv'
  BY DEF ListenerInv
<1>p. /\ \A l : Goto("owner", l) => pc'["owner"] = l
      /\ \A l : Goto("ctl", l) => pc'["owner"] = pc["owner"]
  BY DEF TypeOK, PcTypeOK, Goto
<1> USE DEF ListenerInv, At, OpInv
<1>1. CASE OpenStep
  BY <1>1, OpenStepListener
<1>2. CASE OpenStart
  BY <1>2, <1>p DEF OpenStart, Return
<1>3. ASSUME NEW o \in {"read", "write"}, IoStart(o) PROVE ListenerInv'
  BY <1>3, <1>p DEF IoStart
<1>4. CASE IoStep
  <2>1. op' = op /\ op \in {"read", "write"} /\ pc'["owner"] \in {"idle", "ioCheck", "ioPoll", "ioCall"}
    BY <1>4, <1>p DEF IoStep, IoCheckQuit, IoPoll, IoCall, IoReturn, Return, IoPc
  <2> QED
    BY <2>1
<1>5. ASSUME NEW t \in Thread, CloseStart(t) \/ CloseStep(t) PROVE ListenerInv'
  <2>1. CASE t = "owner"
    BY <2>1, <1>5, <1>p DEF CloseStart, CloseStep, CloseEpoll, CloseSock, ClosePc
  <2>2. CASE t = "ctl"
    BY <2>2, <1>5, <1>p DEF CloseStart, CloseStep, CloseEpoll, CloseSock, locals
  <2> QED
    BY <2>1, <2>2 DEF Thread
<1>6. CASE Quit \/ ClockTick \/ NetworkStep \/ UNCHANGED vars
  BY <1>6 DEF Quit, ClockTick, NetworkStep, vars, locals
<1> QED
  BY <1>1, <1>2, <1>3, <1>4, <1>5, <1>6 DEF Next

\* The open() of a listener never succeeds: the accepted socket is lost on the way.
THEOREM ListenerFails == Spec => []ListenerNeverOpens
<1>1. Init => ListenerInv
  BY DEF Init, ListenerInv
<1>2. IInv /\ ListenerInv /\ [Next]_vars => ListenerInv'
  BY StepListener DEF IInv
<1>3. ListenerInv => ListenerNeverOpens
  BY DEF ListenerInv, ListenerNeverOpens
<1> QED
  BY <1>1, <1>2, <1>3, Invariance, PTL DEF Spec

-----------------------------------------------------------------------------
(* What open() publishes *)

\* Epoll e is there and watches socket s.
Watches(e, s) == e \in LiveEpolls /\ epoll[e].sock = s

\* Socket s has come up, and may have been lost since.
Up(s) == s \in SockId /\ status[s] \in {"connected", "broken"}

\* How far the attempt of a caller or of a rendezvous has come.
AttemptInv ==
    Mode # "LISTENER" =>
        /\ pc["owner"] \in {"preOptions", "writeEpoll", "connect", "openCheck", "openPoll"} =>
              sock \in SockId
        /\ pc["owner"] \in {"connect", "openCheck", "openPoll"} => Watches(writeEid, sock)
        /\ pc["owner"] \in {"openCheck", "openPoll"} =>
              status[sock] \in {"connecting", "connected", "broken"}
        /\ pc["owner"] \in {"postOptions", "payloadSize", "ioEpoll", "publishEid", "publishSock"} =>
              Up(sock) /\ writeEid = -1
        /\ At("owner", "publishEid") => Watches(waitEid, sock)
        /\ At("owner", "publishSock") /\ ~quitIO => Watches(eid, sock)

\* As long as nobody asks to stop, both members are published or neither is, ...
PublishedInv ==
    ~Opening /\ ~At("owner", "new") /\ ~quitIO /\ (sockFd > 0 \/ eid \in LiveEpolls) =>
        Up(sockFd) /\ Watches(eid, sockFd)

\* ... and a read or a write waits on the published eid.
AwaitedInv ==
    /\ pc["owner"] \in IoPc /\ ~quitIO => waitEid = eid
    /\ At("owner", "ioCall") /\ ~quitIO => eid \in LiveEpolls

UsableInv == AttemptInv /\ PublishedInv /\ AwaitedInv

\* A new epoll is there and watches the socket it was given.
LEMMA WatchesAfterWatch ==
  ASSUME TypeOK, NEW e \in EpollId, NEW s, NEW m, epoll' = AfterWatch(e, s, m)
  PROVE  e \in LiveEpolls' /\ epoll'[e].sock = s
  BY DEF TypeOK, ApiTypeOK, AfterWatch, LiveEpolls

\* Each step of open() takes the attempt as far as its label says.
LEMMA OpenStepAttempt ==
  ASSUME IInv, AttemptInv, OpenStep PROVE AttemptInv'
<1> SUFFICES ASSUME Mode # "LISTENER" PROVE AttemptInv'
  BY DEF AttemptInv
<1>t. TypeOK
  BY DEF IInv
<1>p. \A l : Goto("owner", l) => pc'["owner"] = l
  BY <1>t DEF TypeOK, PcTypeOK, Goto
<1>s. SockId \subseteq Int /\ EpollId \subseteq Int /\ -1 \notin LiveEpolls
  BY LiveIsPositive DEF SockId, EpollId
<1> USE DEF AttemptInv, At
<1>b. ASSUME BreakLoop \/ ContinueLoop PROVE AttemptInv'
  <2>1. pc'["owner"] \in {"socket", "giveUp"}
    BY <1>b, <1>t, OutOfAttempt
  <2> QED
    BY <2>1
<1>1. CASE CreateSocket
  <2>1. pc'["owner"] = "giveUp" \/ (pc'["owner"] = "preOptions" /\ sock' \in SockId)
    BY <1>1, <1>p DEF CreateSocket
  <2> QED
    BY <2>1
<1>2. CASE SetOptionsPre
  BY <1>2, <1>b, <1>p DEF SetOptionsPre
<1>3. CASE CreateWriteEpoll
  <2>1. CASE BreakLoop
    BY <2>1, <1>b
  <2>2. CASE \E e \in EpollId :
             /\ epoll' = AfterWatch(e, sock, {"ERR", "OUT"})
             /\ writeEid' = e
             /\ Goto("owner", IF Mode = "LISTENER" THEN "listen" ELSE "connect")
    <3>1. writeEid' \in LiveEpolls' /\ epoll'[writeEid'].sock = sock
      BY <2>2, <1>t, WatchesAfterWatch
    <3>2. pc'["owner"] = "connect" /\ sock' = sock /\ sock \in SockId
      BY <2>2, <1>3, <1>p DEF CreateWriteEpoll
    <3> QED
      BY <3>1, <3>2 DEF Watches
  <2> QED
    BY <1>3, <2>1, <2>2 DEF CreateWriteEpoll
<1>4. CASE Listen \/ Accept
  BY <1>4 DEF Listen, Accept, IInv, LocalsInv
<1>5. CASE Connect
  <2>1. CASE BreakLoop \/ ContinueLoop
    BY <2>1, <1>b
  <2>2. CASE /\ status' = [status EXCEPT ![sock] = "connecting"]
             /\ Goto("owner", "openCheck")
             /\ UNCHANGED <<epoll, writeEid>>
    <3>1. pc'["owner"] = "openCheck" /\ sock' = sock /\ sock \in SockId /\ Watches(writeEid, sock)
      BY <2>2, <1>5, <1>p DEF Connect
    <3>2. status'[sock] = "connecting"
      BY <2>2, <3>1, <1>t DEF TypeOK, ApiTypeOK
    <3>3. Watches(writeEid, sock)'
      BY <2>2, <3>1, LiveUnchanged DEF Watches
    <3> QED
      BY <3>1, <3>2, <3>3
  <2> QED
    BY <1>5, <2>1, <2>2 DEF Connect
<1>6. CASE OpenCheckQuit
  <2>1. CASE BreakLoop
    BY <2>1, <1>b
  <2>2. CASE Goto("owner", "openPoll") /\ UNCHANGED <<epoll, writeEid>>
    BY <2>2, <1>6, <1>p, LiveUnchanged DEF OpenCheckQuit, Watches
  <2> QED
    BY <1>6, <2>1, <2>2 DEF OpenCheckQuit
<1>7. CASE ListenPoll
  BY <1>7 DEF ListenPoll
<1>8. CASE ConnectPoll
  <2>0. PICK r \in WaitTurn(writeEid, TRUE, RwTimeout) :
          CASE r = "OK"      -> WriteEidCleanUp /\ Goto("owner", "postOptions")
            [] r = "EAGAIN"  -> Goto("owner", "openCheck") /\ UNCHANGED <<epoll, writeEid>>
            [] r = "INT_MIN" -> BreakLoop
            [] OTHER         -> ContinueLoop
    BY <1>8 DEF ConnectPoll
  <2>1. CASE r \notin {"OK", "EAGAIN"}
    BY <2>0, <2>1, <1>b
  <2>2. CASE r = "EAGAIN"
    BY <2>0, <2>2, <1>8, <1>p, LiveUnchanged DEF ConnectPoll, Watches
  <2>3. CASE r = "OK"
    <3>1. pc'["owner"] = "postOptions" /\ writeEid' = -1 /\ UNCHANGED <<status, sock>>
      BY <2>0, <2>3, <1>8, <1>p DEF ConnectPoll, WriteEidCleanUp
    <3>2. "OK" \in WaitFd(writeEid, TRUE)
      BY <2>3 DEF WaitTurn
    <3>3. Reported(writeEid) # {}
      BY <3>2 DEF WaitFd, Neterrno
    <3>4. status[sock] # "connecting"
      BY <3>3, <1>8 DEF Reported, Raised, Watches, ConnectPoll
    <3> QED
      BY <3>1, <3>4, <1>8 DEF Up, ConnectPoll
  <2> QED
    BY <2>1, <2>2, <2>3
<1>10. CASE SetOptionsPost
  BY <1>10, <1>b, <1>p DEF SetOptionsPost, Up
<1>11. CASE GetPayloadSize
  BY <1>11, <1>b, <1>p DEF GetPayloadSize, Up
<1>12. CASE CreateIoEpoll
  <2>1. CASE BreakLoop
    BY <2>1, <1>b
  <2>2. CASE /\ \E e \in EpollId : epoll' = AfterWatch(e, sock, IoModes) /\ waitEid' = e
             /\ Goto("owner", "publishEid")
             /\ UNCHANGED writeEid
    <3>1. waitEid' \in LiveEpolls' /\ epoll'[waitEid'].sock = sock
      BY <2>2, <1>t, WatchesAfterWatch
    <3> QED
      BY <3>1, <2>2, <1>12, <1>p DEF CreateIoEpoll, Watches, Up
  <2> QED
    BY <1>12, <2>1, <2>2 DEF CreateIoEpoll
<1>13. CASE PublishEid
  BY <1>13, <1>p, LiveUnchanged DEF PublishEid, Watches, Up, apiVars, locals
<1>14. CASE PublishSock \/ GiveUp
  <2>1. pc'["owner"] = "idle"
    BY <1>14, <1>p DEF PublishSock, GiveUp, Return
  <2> QED
    BY <2>1
<1> QED
  BY <1>1, <1>2, <1>3, <1>4, <1>5, <1>6, <1>7, <1>8, <1>10, <1>11, <1>12, <1>13, <1>14
  DEF OpenStep

\* ... and publishes, at its end, what came up, or nothing.
LEMMA OpenStepPublished ==
  ASSUME IInv, IInv', ListenerInv, UsableInv, OpenStep PROVE PublishedInv' /\ AwaitedInv'
<1> USE DEF At
<1>t. TypeOK
  BY DEF IInv
<1>p. \A l : Goto("owner", l) => pc'["owner"] = l
  BY <1>t DEF TypeOK, PcTypeOK, Goto
<1>1. CASE PublishSock
  <2>1. /\ pc'["owner"] = "idle" /\ sockFd' = sock /\ WriteEidCleanUp
        /\ UNCHANGED <<status, quitIO, eid>>
    BY <1>1, <1>p DEF PublishSock, Return
  <2>2. Up(sock) /\ writeEid = -1 /\ (~quitIO => Watches(eid, sock))
    BY <1>1 DEF PublishSock, ListenerInv, UsableInv, AttemptInv
  <2>3. epoll' = epoll
    BY <2>1, <2>2 DEF WriteEidCleanUp
  <2>4. Up(sockFd)' /\ (~quitIO' => Watches(eid, sockFd)')
    BY <2>1, <2>2, <2>3, LiveUnchanged DEF Up, Watches
  <2> QED
    BY <2>1, <2>4 DEF PublishedInv, AwaitedInv, IoPc
<1>2. CASE GiveUp
  <2>1. pc'["owner"] = "idle" /\ ~ok' /\ op' = "open" /\ sockFd' = -1
    BY <1>2, <1>p DEF GiveUp, Return, IInv, LocalsInv, OpInv, Opening, OpenPc, members
  <2>2. LiveEpolls' = {}
    BY <2>1 DEF IInv, NothingHeldAtRest, Reopenable
  <2> QED
    BY <2>1, <2>2 DEF PublishedInv, AwaitedInv, IoPc
<1>3. CASE OpenStep /\ ~PublishSock /\ ~GiveUp
  <2>1. pc'["owner"] \in OpenPc
    BY <1>3, <1>p DEF OpenStep, CreateSocket, SetOptionsPre, CreateWriteEpoll, Listen, Connect,
       OpenCheckQuit, ListenPoll, ConnectPoll, Accept, SetOptionsPost, GetPayloadSize,
       CreateIoEpoll, PublishEid, OpenPc, BreakLoop, ContinueLoop
  <2> QED
    BY <2>1 DEF PublishedInv, AwaitedInv, Opening, OpenPc, IoPc
<1> QED
  BY <1>1, <1>2, <1>3

\* While nobody asks to stop, no other step takes away what open() published.
LEMMA StepUsable ==
  ASSUME IInv, IInv', ListenerInv, UsableInv, [Next]_vars PROVE UsableInv'
<1> USE DEF At, members, locals, apiVars
<1>t. TypeOK
  BY DEF IInv
<1>p. \A t \in Thread : \A l : Goto(t, l) =>
         pc'[t] = l /\ \A u \in Thread : u # t => pc'[u] = pc[u]
  BY <1>t DEF TypeOK, PcTypeOK, Goto
<1>1. CASE OpenStart
  <2>1. sockFd' = -1 /\ eid' = -1 /\ pc'["owner"] \in {"socket", "idle"}
    BY <1>1, <1>p DEF OpenStart, Return
  <2>2. -1 \notin LiveEpolls'
    BY <2>1, SrtApiAssumption DEF LiveEpolls, EpollId
  <2> QED
    BY <2>1, <2>2 DEF UsableInv, AttemptInv, PublishedInv, AwaitedInv, IoPc
<1>2. CASE OpenStep
  BY <1>2, OpenStepAttempt, OpenStepPublished DEF UsableInv
<1>s. ASSUME UNCHANGED <<epoll, sockFd, eid, sock, writeEid>>, pc'["owner"] \notin OpenPc,
             pc["owner"] \notin OpenPc, pc["owner"] # "new", AwaitedInv',
             \A s \in SockId : status[s] \in {"connected", "broken"} =>
                                  status'[s] \in {"connected", "broken"},
             ~quitIO' => ~quitIO
      PROVE  UsableInv'
  <2>1. AttemptInv'
    BY <1>s DEF AttemptInv, OpenPc
  <2>2. PublishedInv'
    BY <1>s, LiveUnchanged DEF UsableInv, PublishedInv, Up, Watches, Opening
  <2> QED
    BY <2>1, <2>2, <1>s DEF UsableInv
<1>3. ASSUME NEW o \in {"read", "write"}, IoStart(o) PROVE UsableInv'
  <2>1. /\ pc'["owner"] = "ioCheck" /\ pc["owner"] = "idle" /\ waitEid' = eid
        /\ UNCHANGED <<status, epoll, quitIO, sockFd, eid, sock, writeEid>>
    BY <1>3, <1>p DEF IoStart
  <2>2. AwaitedInv'
    BY <2>1 DEF AwaitedInv
  <2> QED
    BY <2>1, <2>2, <1>s DEF OpenPc
<1>4. CASE IoStep
  <2>0. pc["owner"] \in IoPc
    BY <1>4 DEF IoStep, IoCheckQuit, IoPoll, IoCall, IoPc
  <2>1. CASE IoCheckQuit
    <3>1. /\ pc'["owner"] \in {"idle", "ioPoll"}
          /\ UNCHANGED <<status, epoll, quitIO, sockFd, eid, sock, writeEid>>
          /\ (pc'["owner"] = "idle" \/ waitEid' = waitEid)
      BY <2>1, <1>p DEF IoCheckQuit, IoReturn, Return
    <3>2. AwaitedInv'
      BY <3>1, <2>0 DEF AwaitedInv, UsableInv, IoPc
    <3> QED
      BY <2>0, <3>1, <3>2, <1>s DEF OpenPc, IoPc
  <2>2. CASE IoPoll
    <3>0. PICK r \in WaitTurn(waitEid, FALSE, RwTimeout) :
            CASE r = "OK"     -> Goto("owner", "ioCall")  /\ UNCHANGED waitEid
              [] r = "EAGAIN" -> Goto("owner", "ioCheck") /\ UNCHANGED waitEid
              [] OTHER        -> IoReturn(FALSE)
      BY <2>2 DEF IoPoll
    <3>1. UNCHANGED <<status, epoll, quitIO, sockFd, eid, sock, writeEid>>
      BY <2>2 DEF IoPoll
    <3>2. /\ pc'["owner"] \in {"ioCall", "ioCheck", "idle"}
          /\ pc'["owner"] = "idle" \/ waitEid' = waitEid
          /\ pc'["owner"] = "ioCall" => r = "OK"
      <4>1. CASE r = "OK"
        BY <4>1, <3>0, <1>p
      <4>2. CASE r = "EAGAIN"
        BY <4>2, <3>0, <1>p
      <4>3. CASE r \notin {"OK", "EAGAIN"}
        BY <4>3, <3>0, <1>p DEF IoReturn, Return
      <4> QED
        BY <4>1, <4>2, <4>3
    <3>3. r = "OK" => waitEid \in LiveEpolls
      <4>1. r = "OK" => "OK" \in WaitFd(waitEid, FALSE)
        BY DEF WaitTurn
      <4> QED
        BY <4>1 DEF WaitFd, Neterrno, Pollable
    <3>4. AwaitedInv'
      BY <3>1, <3>2, <3>3, <2>0, LiveUnchanged DEF AwaitedInv, UsableInv, IoPc
    <3> QED
      BY <2>0, <3>1, <3>2, <3>4, <1>s DEF OpenPc, IoPc
  <2>3. CASE IoCall
    <3>1. pc'["owner"] = "idle" /\ UNCHANGED <<status, epoll, quitIO, sockFd, eid, sock, writeEid>>
      BY <2>3, <1>p DEF IoCall, IoReturn, Return
    <3>2. AwaitedInv'
      BY <3>1 DEF AwaitedInv, IoPc
    <3> QED
      BY <2>0, <3>1, <3>2, <1>s DEF OpenPc, IoPc
  <2> QED
    BY <1>4, <2>1, <2>2, <2>3 DEF IoStep
<1>q. ASSUME quitIO', pc'["owner"] \in OpenPc => pc["owner"] = pc'["owner"],
             UNCHANGED <<sock, writeEid, waitEid>>,
             \A s \in SockId : Opening /\ status[s] # "closed" => status'[s] = status[s],
             Opening /\ ~At("owner", "publishSock") => epoll' = epoll
      PROVE  UsableInv'
  <2>1. AttemptInv'
    BY <1>q, LiveUnchanged DEF UsableInv, AttemptInv, OpenPc, Opening, Up, Watches
  <2> QED
    BY <2>1, <1>q DEF UsableInv, PublishedInv, AwaitedInv
<1>5. ASSUME NEW t \in Thread, CloseStart(t) PROVE UsableInv'
  BY <1>5, <1>p, <1>q DEF CloseStart, OpenPc
<1>6. ASSUME NEW t \in Thread, CloseStep(t) PROVE UsableInv'
  <2>1. quitIO /\ pc[t] \in ClosePc /\ quitIO' = quitIO /\ UNCHANGED <<sock, writeEid, waitEid>>
    BY <1>6 DEF CloseStep, CloseEpoll, CloseSock, ClosePc, IInv, QuitInv
  <2>2. pc'["owner"] \in OpenPc => pc["owner"] = pc'["owner"]
    BY <1>6, <1>p DEF CloseStep, CloseEpoll, CloseSock, OpenPc
  <2>3. Opening => sockFd = -1 /\ (eid # -1 => At("owner", "publishSock"))
    BY DEF IInv, LocalsInv
  <2>4. /\ Opening => status' = status
        /\ Opening /\ ~At("owner", "publishSock") => epoll' = epoll
    BY <1>6, <2>3 DEF CloseStep, CloseEpoll, CloseSock
  <2> QED
    BY <2>1, <2>2, <2>4, <1>q
<1>7. CASE Quit
  BY <1>7, <1>q DEF Quit
<1>n. ASSUME UNCHANGED <<epoll, members, sock, writeEid, waitEid, pc>>,
             \A s \in SockId : \/ status'[s] = status[s]
                               \/ /\ status[s] \in {"connecting", "connected"}
                                  /\ status'[s] \in {"connected", "broken"}
      PROVE  UsableInv'
  <2>1. \A s \in SockId : status[s] \in {"connected", "broken"} =>
                             status'[s] \in {"connected", "broken"}
    BY <1>n
  <2>2. \A s \in SockId : status[s] \in {"connecting", "connected", "broken"} =>
                             status'[s] \in {"connecting", "connected", "broken"}
    BY <1>n
  <2>3. LiveEpolls' = LiveEpolls
    BY <1>n, LiveUnchanged
  <2>4. AttemptInv'
    BY <1>n, <2>1, <2>2, <2>3 DEF UsableInv, AttemptInv, Up, Watches
  <2>5. PublishedInv' /\ AwaitedInv'
    BY <1>n, <2>1, <2>3 DEF UsableInv, PublishedInv, AwaitedInv, Up, Watches, Opening
  <2> QED
    BY <2>4, <2>5 DEF UsableInv
<1>8. CASE ClockTick
  BY <1>8, <1>n DEF ClockTick
<1>9. CASE NetworkStep
  <2>1. \A s \in SockId : \/ status'[s] = status[s]
                          \/ /\ status[s] \in {"connecting", "connected"}
                             /\ status'[s] \in {"connected", "broken"}
    BY <1>9, <1>t DEF NetworkStep, Network, ConnectUp, Break, Arrive, Drain, Incoming,
       TypeOK, ApiTypeOK
  <2>2. UNCHANGED epoll
    BY <1>9 DEF NetworkStep, Network, ConnectUp, Break, Arrive, Drain, Incoming
  <2> QED
    BY <2>1, <2>2, <1>9, <1>n DEF NetworkStep
<1>10. CASE UNCHANGED vars
  BY <1>10, <1>n DEF vars
<1> QED
  BY <1>1, <1>2, <1>3, <1>4, <1>5, <1>6, <1>7, <1>8, <1>9, <1>10 DEF Next

\* Both hold together, in every behaviour.
LEMMA UsableInvariance == Spec => [](IInv /\ ListenerInv /\ UsableInv)
<1>1. Init => ListenerInv /\ UsableInv
  BY DEF Init, ListenerInv, UsableInv, AttemptInv, PublishedInv, AwaitedInv, At, IoPc
<1>2. IInv /\ IInv' /\ ListenerInv /\ UsableInv /\ [Next]_vars => ListenerInv' /\ UsableInv'
  BY StepListener, StepUsable DEF IInv
<1> QED
  BY <1>1, <1>2, Invariance, PTL DEF Spec

\* What open() has published is a socket that came up and the epoll that watches
\* it, until somebody asks to stop: whatever addresses were tried before it.
THEOREM OpenedUsable == Spec => []OpenedHandleUsable
<1>1. IInv /\ UsableInv => OpenedHandleUsable
  <2> SUFFICES ASSUME IInv, UsableInv, ~quitIO, sockFd > 0, ~At("owner", "new")
               PROVE  /\ sockFd \in LiveSocks /\ status[sockFd] \in {"connected", "broken"}
                      /\ eid \in LiveEpolls /\ epoll[eid].sock = sockFd
    BY DEF OpenedHandleUsable
  <2>1. ~Opening
    BY DEF IInv, LocalsInv
  <2>2. Up(sockFd) /\ Watches(eid, sockFd)
    BY <2>1 DEF UsableInv, PublishedInv
  <2> QED
    BY <2>2 DEF Up, Watches, LiveSocks
<1> QED
  BY <1>1, UsableInvariance, PTL

\* Between the wait and the message call nothing changes under the owner unless
\* somebody asked to stop: the socket is open and the one that was waited for.
THEOREM IoAwaited == Spec => []IoOnAwaitedSocket
<1>1. UsableInv => IoOnAwaitedSocket
  <2> SUFFICES ASSUME UsableInv, At("owner", "ioCall"), ~quitIO
               PROVE  sockFd \in LiveSocks /\ epoll[waitEid].sock = sockFd
    BY DEF IoOnAwaitedSocket
  <2>1. waitEid = eid /\ eid \in LiveEpolls /\ ~Opening /\ ~At("owner", "new")
    BY DEF UsableInv, AwaitedInv, IoPc, Opening, OpenPc, At
  <2>2. Up(sockFd) /\ Watches(eid, sockFd)
    BY <2>1 DEF UsableInv, PublishedInv
  <2> QED
    BY <2>1, <2>2 DEF Up, Watches, LiveSocks
<1> QED
  BY <1>1, UsableInvariance, PTL

-----------------------------------------------------------------------------
(* LibSrt implements SrtHandle *)

\* Where a step leaves all that Phase looks at alone, or is inside open().
LEMMA PhaseStutter ==
  ASSUME IInv, UNCHANGED <<sockFd, quitIO, lateIO>>,
         \/ LiveSocks' = LiveSocks /\ (Opening' <=> Opening)
         \/ IInv' /\ Opening /\ Opening'
  PROVE  UNCHANGED <<Phase, quitIO, lateIO>>
<1>1. Opening => sockFd \notin LiveSocks
  BY LiveIsPositive DEF IInv, LocalsInv
<1>2. IInv' => (Opening' => sockFd' = -1)
  BY DEF IInv, LocalsInv
<1>3. LiveSocks' \subseteq SockId /\ -1 \notin SockId
  BY SrtApiAssumption DEF LiveSocks, SockId
<1> QED
  BY <1>1, <1>2, <1>3 DEF Phase

\* A new handle is a SrtHandle that is down.
LEMMA InitRefines == Init => Handle!Init
<1> SUFFICES ASSUME Init PROVE Handle!Init
  OBVIOUS
<1>1. LiveSocks = {} /\ ~Opening
  BY DEF Init, ApiInit, LiveSocks, Opening, OpenPc
<1> QED
  BY <1>1 DEF Init, Handle!Init, Phase

\* Every step of the code is a step of SrtHandle or leaves it alone.
LEMMA StepRefines ==
  ASSUME IInv, IInv', [Next]_vars PROVE [Handle!Next]_(Handle!handleVars)
<1> USE DEF At, members, locals, apiVars
<1>u. ASSUME UNCHANGED <<Phase, quitIO, lateIO>> PROVE [Handle!Next]_(Handle!handleVars)
  BY <1>u DEF Handle!handleVars
<1>t. TypeOK
  BY DEF IInv
<1>p. \A t \in Thread : \A l : Goto(t, l) =>
         pc'[t] = l /\ \A u \in Thread : u # t => pc'[u] = pc[u]
  BY <1>t DEF TypeOK, PcTypeOK, Goto
<1>n. -1 \notin LiveSocks /\ -1 \notin LiveSocks'
  BY SrtApiAssumption DEF LiveSocks, SockId
<1>1. CASE OpenStart
  <2>1. ~Opening /\ sockFd \notin LiveSocks
    BY <1>1, <1>t, LiveIsPositive
    DEF OpenStart, Opening, OpenPc, IInv, LocalsInv, OpInv, Reopenable, TypeOK
  <2>2. sockFd' = -1 /\ quitIO' = FALSE /\ lateIO' = 0
    BY <1>1 DEF OpenStart
  <2>3. Handle!Open
    BY <2>1, <2>2, <1>n DEF Handle!Open, Phase
  <2> QED
    BY <2>3 DEF Handle!Next
<1>2. CASE PublishSock \/ GiveUp
  <2>1. Opening /\ sockFd = -1
    BY <1>2 DEF PublishSock, GiveUp, Opening, OpenPc, IInv, LocalsInv
  <2>2. ~Opening' /\ UNCHANGED <<quitIO, lateIO>>
    BY <1>2, <1>p DEF PublishSock, GiveUp, Return, Opening, OpenPc
  <2>3. Handle!Settle
    BY <2>1, <2>2, <1>n DEF Handle!Settle, Phase
  <2> QED
    BY <2>3 DEF Handle!Next
<1>3. CASE OpenStep /\ ~PublishSock /\ ~GiveUp
  <2>1. Opening
    BY <1>3 DEF OpenStep, CreateSocket, SetOptionsPre, CreateWriteEpoll, Listen, Connect,
       OpenCheckQuit, ListenPoll, ConnectPoll, Accept, SetOptionsPost, GetPayloadSize,
       CreateIoEpoll, PublishEid, OpenPc, Opening
  <2>2. pc'["owner"] \in OpenPc
    BY <1>3, <1>p DEF OpenStep, CreateSocket, SetOptionsPre, CreateWriteEpoll, Listen, Connect,
       OpenCheckQuit, ListenPoll, ConnectPoll, Accept, SetOptionsPost, GetPayloadSize,
       CreateIoEpoll, PublishEid, OpenPc, BreakLoop, ContinueLoop
  <2>3. UNCHANGED <<sockFd, quitIO, lateIO>>
    BY <1>3 DEF OpenStep, CreateSocket, SetOptionsPre, CreateWriteEpoll, Listen, Connect,
       OpenCheckQuit, ListenPoll, ConnectPoll, Accept, SetOptionsPost, GetPayloadSize,
       CreateIoEpoll, PublishEid, openOthers
  <2> QED
    BY <2>1, <2>2, <2>3, <1>u, PhaseStutter DEF Opening
<1>4. ASSUME NEW o \in {"read", "write"}, IoStart(o) PROVE [Handle!Next]_(Handle!handleVars)
  <2>1. ~Opening /\ ~Opening' /\ UNCHANGED <<status, sockFd, quitIO, lateIO>>
    BY <1>4, <1>p DEF IoStart, Opening, OpenPc
  <2> QED
    BY <2>1, <1>u, PhaseStutter, LiveUnchanged
<1>5. CASE IoCheckQuit \/ IoPoll
  <2>1. ~Opening /\ ~Opening' /\ UNCHANGED <<status, sockFd, quitIO, lateIO>>
    <3>1. CASE IoCheckQuit
      BY <3>1, <1>p DEF IoCheckQuit, IoReturn, Return, Opening, OpenPc
    <3>2. CASE IoPoll
      <4>1. pc["owner"] = "ioPoll" /\ pc'["owner"] \in {"idle", "ioCheck", "ioCall"}
        BY <3>2, <1>p DEF IoPoll, IoReturn, Return
      <4> QED
        BY <4>1, <3>2 DEF IoPoll, Opening, OpenPc
    <3> QED
      BY <1>5, <3>1, <3>2
  <2> QED
    BY <2>1, <1>u, PhaseStutter, LiveUnchanged
<1>6. CASE IoCall
  <2>1. /\ ~Opening /\ ~Opening' /\ UNCHANGED <<status, sockFd, quitIO>> /\ lateIO = 0
        /\ lateIO' = IF quitIO THEN 1 ELSE 0
    BY <1>6, <1>p DEF IoCall, IoReturn, Return, Opening, OpenPc, IInv, QuitInv
  <2>2. UNCHANGED <<Phase, quitIO>>
    BY <2>1, LiveUnchanged DEF Phase
  <2>3. CASE quitIO
    BY <2>1, <2>2, <2>3 DEF Handle!Next, Handle!LateMessage
  <2>4. CASE ~quitIO
    BY <2>1, <2>2, <2>4, <1>u
  <2> QED
    BY <2>3, <2>4
<1>7. ASSUME quitIO' = TRUE, UNCHANGED <<status, sockFd, lateIO>>, Opening' <=> Opening
      PROVE  [Handle!Next]_(Handle!handleVars)
  <2>1. UNCHANGED Phase
    BY <1>7, LiveUnchanged DEF Phase
  <2> QED
    BY <1>7, <2>1 DEF Handle!Next, Handle!Stop
<1>8. ASSUME NEW t \in Thread, CloseStart(t) PROVE [Handle!Next]_(Handle!handleVars)
  <2>1. Opening' <=> Opening
    BY <1>8, <1>p DEF CloseStart, Opening, OpenPc
  <2> QED
    BY <2>1, <1>8, <1>7 DEF CloseStart
<1>9. ASSUME NEW t \in Thread, CloseStep(t) PROVE [Handle!Next]_(Handle!handleVars)
  <2>1. Opening' <=> Opening
    BY <1>9, <1>p DEF CloseStep, CloseEpoll, CloseSock, Opening, OpenPc
  <2>2. CASE CloseEpoll(t)
    BY <2>1, <2>2, <1>u, PhaseStutter, LiveUnchanged DEF CloseEpoll
  <2>3. CASE CloseSock(t) /\ sockFd \in LiveSocks
    <3>1. Phase = "up" /\ ~Opening
      BY <2>3, <1>n DEF Phase, IInv, LocalsInv
    <3>2. sockFd' = -1 /\ UNCHANGED <<quitIO, lateIO>> /\ quitIO
      BY <2>3, <1>t, LiveIsPositive DEF CloseSock, TypeOK, IInv, QuitInv, ClosePc
    <3>3. Handle!Close
      BY <3>1, <3>2, <2>1, <1>n DEF Handle!Close, Phase
    <3> QED
      BY <3>3 DEF Handle!Next
  <2>4. CASE CloseSock(t) /\ sockFd \notin LiveSocks
    <3>1. status' = status /\ sockFd' \in {-1, sockFd} /\ UNCHANGED <<quitIO, lateIO>>
      BY <2>4 DEF CloseSock, AfterClose
    <3>2. UNCHANGED Phase
      BY <3>1, <2>1, <2>4, <1>n, LiveUnchanged DEF Phase
    <3> QED
      BY <3>1, <3>2, <1>u
  <2> QED
    BY <1>9, <2>2, <2>3, <2>4 DEF CloseStep
<1>10. CASE Quit
  BY <1>10, <1>7 DEF Quit, Opening
<1>11. CASE ClockTick
  BY <1>11, <1>u, PhaseStutter, LiveUnchanged DEF ClockTick, Opening
<1>12. CASE NetworkStep
  <2>1. LiveSocks' = LiveSocks
    BY <1>12, <1>t DEF NetworkStep, Network, ConnectUp, Break, Arrive, Drain, Incoming,
       LiveSocks, TypeOK, ApiTypeOK
  <2> QED
    BY <2>1, <1>12, <1>u, PhaseStutter DEF NetworkStep, Opening
<1>13. CASE UNCHANGED vars
  BY <1>13, <1>u, PhaseStutter, LiveUnchanged DEF vars, Opening
<1> QED
  BY <1>1, <1>2, <1>3, <1>4, <1>5, <1>6, <1>8, <1>9, <1>10, <1>11, <1>12, <1>13
  DEF Next, IoStep

\* Whatever open, read, write, close and quit do to sockets and epolls, a user
\* of the handle sees SrtHandle.
THEOREM Refinement == Spec => Handle!Spec
<1>1. Init => Handle!Init
  BY InitRefines
<1>2. IInv /\ IInv' /\ [Next]_vars => [Handle!Next]_(Handle!handleVars)
  BY StepRefines
<1> QED
  BY <1>1, <1>2, Invariance, PTL DEF Spec, Handle!Spec

\* The same, under the name the runs check it by.
THEOREM Implements == Spec => ImplementsHandle
  BY Refinement DEF ImplementsHandle

-----------------------------------------------------------------------------
(* PushTest: the program uses its handle as LibSrt asks *)

\* Every step of the program is a step of the handle, or leaves it alone.
LEMMA StepUsesHandle == [PushNext]_allVars => [Next]_vars
<1> SUFFICES ASSUME [PushNext]_allVars PROVE [Next]_vars
  OBVIOUS
<1>1. CASE PushStep
  <2>1. UNCHANGED vars \/ OpenStart \/ IoStart("write") \/ CloseStart("owner")
    BY <1>1 DEF PushStep, Fopen, Construct, Constructed, CheckQuit, ReadBlock, Write, Written,
       Destroy, Released
  <2> QED
    BY <2>1 DEF Next
<1>2. CASE HandleStep
  BY <1>2 DEF HandleStep, Next
<1>3. CASE PressQ \/ Join
  BY <1>3 DEF PressQ, Join
<1>4. CASE ClockTick \/ NetworkStep
  BY <1>4 DEF Next
<1>5. CASE UNCHANGED allVars
  BY <1>5 DEF allVars
<1> QED
  BY <1>1, <1>2, <1>3, <1>4, <1>5 DEF PushNext

\* The push program keeps to what LibSrt asks of its callers, so that whatever is
\* proved of a handle holds of the program's: it opens it once, writes only
\* between two calls, and closes it at the end.
THEOREM UsesHandle == PushSpec => Spec
<1>1. PushInit => Init
  BY DEF PushInit
<1> QED
  BY <1>1, StepUsesHandle, PTL DEF PushSpec, Spec

-----------------------------------------------------------------------------
(* PushTest: where the push thread is, and where that leaves its handle *)

\* Up to the constructor.
BeforeInv ==
    push \in {"fopen", "construct"} => handle = "null" /\ At("owner", "new")

\* In the constructor: open() is running, or is over.
OpeningInv ==
    push = "opening" =>
        /\ Opening \/ At("owner", "idle")
        /\ op = "open" /\ ~quitIO
        /\ ok => sockFd > 0

\* In the loop: the constructor succeeded, and nobody has asked the handle to stop.
LoopInv ==
    push \in {"check", "read", "write", "writing"} =>
        /\ success /\ handle = "set"
        /\ pc["owner"] \in {"idle"} \cup IoPc
        /\ ~quitIO /\ sockFd > 0

\* At the end, and after it.
EndInv ==
    /\ push = "releasing" => op = "close" /\ pc["owner"] \in {"idle"} \cup ClosePc
    /\ push = "over" => handle = "null" /\ (At("owner", "new") \/ (At("owner", "idle") /\ op = "close"))

\* SRTPush has a handle from the call of open() on, until it drops it.
HandleInv == push \in {"opening", "destroy", "releasing"} => handle = "set"

PushInv == BeforeInv /\ OpeningInv /\ LoopInv /\ EndInv /\ HandleInv

\* The program starts with no handle.
LEMMA InitPushInv == PushInit => PushInv
  BY DEF PushInit, Init, PushInv, BeforeInv, OpeningInv, LoopInv, EndInv, HandleInv, At

\* The steps of the push thread outside LibSrt.
LEMMA PushStepPushInv ==
  ASSUME TypeOK, PushInv, PushStep PROVE PushInv'
<1>p. \A l : Goto("owner", l) => pc'["owner"] = l
  BY DEF TypeOK, PcTypeOK, Goto
<1> USE DEF PushInv, BeforeInv, OpeningInv, LoopInv, EndInv, HandleInv, PushGoto, At
<1>1. CASE Fopen
  BY <1>1 DEF Fopen, vars
<1>2. CASE Construct
  <2>1. /\ pc'["owner"] \in {"socket", "idle"} /\ op' = "open" /\ ~quitIO' /\ ok' = FALSE
        /\ push' = "opening" /\ handle' = "set"
    BY <1>2, <1>p DEF Construct, OpenStart, Return
  <2> QED
    BY <2>1 DEF Opening, OpenPc
<1>3. CASE Constructed
  BY <1>3 DEF Constructed, vars, members
<1>4. CASE CheckQuit \/ ReadBlock \/ Written
  BY <1>4 DEF CheckQuit, ReadBlock, Written, vars, members
<1>5. CASE Write
  <2>1. IoStart("write") /\ push' = "writing" /\ UNCHANGED <<success, handle>>
    BY <1>5 DEF Write
  <2>2. pc'["owner"] = "ioCheck" /\ UNCHANGED members
    BY <2>1, <1>p DEF IoStart
  <2> QED
    BY <1>5, <2>1, <2>2 DEF Write, members, IoPc
<1>6. CASE Destroy
  <2>1. pc'["owner"] = "releaseEpoll" /\ op' = "close" /\ push' = "releasing" /\ handle' = handle
    BY <1>6, <1>p DEF Destroy, CloseStart
  <2> QED
    BY <1>6, <2>1 DEF Destroy, ClosePc
<1>7. CASE Released
  BY <1>7 DEF Released, vars, ClosePc
<1> QED
  BY <1>1, <1>2, <1>3, <1>4, <1>5, <1>6, <1>7 DEF PushStep

\* The steps inside LibSrt, each of which is of the call the push thread is in.
LEMMA HandleStepPushInv ==
  ASSUME IInv, ListenerInv, UsableInv, PushInv, HandleStep PROVE PushInv'
<1>t. TypeOK
  BY DEF IInv
<1>p. \A l : Goto("owner", l) => pc'["owner"] = l
  BY <1>t DEF TypeOK, PcTypeOK, Goto
<1>u. UNCHANGED pushVars
  BY DEF HandleStep
<1> USE DEF PushInv, BeforeInv, OpeningInv, LoopInv, EndInv, HandleInv, pushVars, At
<1>1. CASE OpenStep
  <2>1. Opening /\ ~ok
    BY <1>1 DEF OpenStep, CreateSocket, SetOptionsPre, CreateWriteEpoll, Listen, Connect,
       OpenCheckQuit, ListenPoll, ConnectPoll, Accept, SetOptionsPost, GetPayloadSize,
       CreateIoEpoll, PublishEid, PublishSock, GiveUp, OpenPc, Opening, IInv, OpInv
  <2>2. push \notin {"fopen", "construct", "check", "read", "write", "writing", "releasing", "over"}
    BY <2>1, <1>t DEF Opening, OpenPc, IoPc, ClosePc
  <2>3. op' = op /\ quitIO' = quitIO
    BY <1>1 DEF OpenStep, CreateSocket, SetOptionsPre, CreateWriteEpoll, Listen, Connect,
       OpenCheckQuit, ListenPoll, ConnectPoll, Accept, SetOptionsPost, GetPayloadSize,
       CreateIoEpoll, PublishEid, PublishSock, GiveUp, openOthers, members
  <2>4. CASE PublishSock
    <3>1. pc'["owner"] = "idle" /\ sockFd' = sock
      BY <2>4, <1>p DEF PublishSock, Return
    <3>2. sock > 0
      BY <2>4, SrtApiAssumption
      DEF PublishSock, ListenerInv, UsableInv, AttemptInv, Up, SockId
    <3> QED
      BY <2>2, <2>3, <3>1, <3>2, <1>u
  <2>5. CASE ~PublishSock
    <3>1. pc'["owner"] \in OpenPc \cup {"idle"}
      BY <1>1, <1>p, <2>5 DEF OpenStep, CreateSocket, SetOptionsPre, CreateWriteEpoll, Listen,
         Connect, OpenCheckQuit, ListenPoll, ConnectPoll, Accept, SetOptionsPost, GetPayloadSize,
         CreateIoEpoll, PublishEid, GiveUp, OpenPc, BreakLoop, ContinueLoop, Return
    <3>2. ok' = ok \/ ok' = FALSE
      BY <1>1, <2>5 DEF OpenStep, CreateSocket, SetOptionsPre, CreateWriteEpoll, Listen,
         Connect, OpenCheckQuit, ListenPoll, ConnectPoll, Accept, SetOptionsPost, GetPayloadSize,
         CreateIoEpoll, PublishEid, GiveUp, Return, openOthers
    <3> QED
      BY <2>1, <2>2, <2>3, <3>1, <3>2, <1>u DEF Opening
  <2> QED
    BY <2>4, <2>5
<1>2. CASE IoStep
  <2>1. pc["owner"] \in IoPc /\ pc'["owner"] \in IoPc \cup {"idle"} /\ UNCHANGED members
    <3>1. CASE IoCheckQuit
      BY <3>1, <1>p DEF IoCheckQuit, IoReturn, Return, IoPc
    <3>2. CASE IoPoll
      <4>1. pc["owner"] = "ioPoll" /\ pc'["owner"] \in {"idle", "ioCheck", "ioCall"}
        BY <3>2, <1>p DEF IoPoll, IoReturn, Return
      <4> QED
        BY <4>1, <3>2 DEF IoPoll, IoPc
    <3>3. CASE IoCall
      BY <3>3, <1>p DEF IoCall, IoReturn, Return, IoPc
    <3> QED
      BY <1>2, <3>1, <3>2, <3>3 DEF IoStep
  <2>2. push \notin {"fopen", "construct", "opening", "releasing", "over"}
    BY <2>1 DEF Opening, OpenPc, IoPc, ClosePc
  <2> QED
    BY <2>1, <2>2, <1>u DEF members
<1>3. CASE CloseStep("owner")
  <2>1. pc["owner"] \in ClosePc /\ pc'["owner"] \in ClosePc \cup {"idle"} /\ op' = op
    BY <1>3, <1>p DEF CloseStep, CloseEpoll, CloseSock, ClosePc
  <2>2. push \notin {"fopen", "construct", "opening", "check", "read", "write", "writing", "over"}
    BY <2>1 DEF Opening, OpenPc, IoPc, ClosePc
  <2> QED
    BY <2>1, <2>2, <1>u
<1> QED
  BY <1>1, <1>2, <1>3 DEF HandleStep

\* All the steps of the program.
LEMMA StepPushInv ==
  ASSUME IInv, ListenerInv, UsableInv, PushInv, [PushNext]_allVars PROVE PushInv'
<1> USE DEF PushInv, BeforeInv, OpeningInv, LoopInv, EndInv, HandleInv, At
<1>1. CASE PushStep
  BY <1>1, PushStepPushInv DEF IInv
<1>2. CASE HandleStep
  BY <1>2, HandleStepPushInv
<1>3. CASE PressQ \/ Join
  BY <1>3 DEF PressQ, Join, vars, members, Opening
<1>4. CASE (ClockTick \/ NetworkStep) /\ UNCHANGED pushVars
  BY <1>4 DEF ClockTick, NetworkStep, pushVars, members, Opening
<1>5. CASE UNCHANGED allVars
  BY <1>5 DEF allVars, vars, pushVars, members, Opening
<1> QED
  BY <1>1, <1>2, <1>3, <1>4, <1>5 DEF PushNext

\* What is proved of a handle and what is proved of the program, together.
THEOREM PushInvariance == PushSpec => [](IInv /\ ListenerInv /\ UsableInv /\ PushInv)
<1>1. IInv /\ ListenerInv /\ UsableInv /\ PushInv /\ [PushNext]_allVars => PushInv'
  BY StepPushInv
<1> QED
  BY <1>1, InitPushInv, UsesHandle, UsableInvariance, PTL DEF PushSpec

-----------------------------------------------------------------------------
(* PushTest: what follows for the program *)

\* When the push thread is over, open() having failed or not, and whatever became
\* of the writes, the library has no socket and no epoll of it left.
THEOREM ProgramEndsClean == PushSpec => []EndsClean
<1>1. IInv /\ PushInv => EndsClean
  <2> SUFFICES ASSUME IInv, PushInv, push = "over"
               PROVE  LiveSocks = {} /\ LiveEpolls = {} /\ handle = "null"
    BY DEF EndsClean
  <2>1. handle = "null" /\ (At("owner", "new") \/ (At("owner", "idle") /\ op = "close"))
    BY DEF PushInv, EndInv
  <2>2. CASE At("owner", "new")
    BY <2>1, <2>2 DEF IInv, LocalsInv
  <2>3. CASE At("owner", "idle") /\ op = "close"
    BY <2>1, <2>3, PushTestAssumption DEF IInv, NothingHeldAtRest, Reopenable
  <2> QED
    BY <2>1, <2>2, <2>3
<1> QED
  BY <1>1, PushInvariance, PTL

\* Every message the program hands to SRT goes to a socket that open() brought up
\* and that nobody has closed, on which write() waited before.
WritesGoToOpenSocket ==
    push = "writing" /\ pc["owner"] \in IoPc =>
        /\ success /\ handle = "set"
        /\ sockFd \in LiveSocks /\ waitEid = eid /\ Watches(eid, sockFd)

\* ... throughout a run, since the one thread that closes the handle is the one
\* that writes, and drops it only after the last write.
THEOREM ProgramWrites == PushSpec => []WritesGoToOpenSocket
<1>1. UsableInv /\ PushInv => WritesGoToOpenSocket
  <2> SUFFICES ASSUME UsableInv, PushInv, push = "writing", pc["owner"] \in IoPc
               PROVE  /\ success /\ handle = "set"
                      /\ sockFd \in LiveSocks /\ waitEid = eid /\ Watches(eid, sockFd)
    BY DEF WritesGoToOpenSocket
  <2>1. success /\ handle = "set" /\ ~quitIO /\ sockFd > 0
    BY DEF PushInv, LoopInv
  <2>2. ~Opening /\ ~At("owner", "new")
    BY DEF Opening, OpenPc, IoPc, At
  <2>3. Up(sockFd) /\ Watches(eid, sockFd) /\ waitEid = eid
    BY <2>1, <2>2 DEF UsableInv, PublishedInv, AwaitedInv
  <2> QED
    BY <2>1, <2>3 DEF Up, LiveSocks
<1> QED
  BY <1>1, PushInvariance, PTL
=============================================================================
