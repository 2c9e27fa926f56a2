------------------------------- MODULE LibSrt -------------------------------
(***************************************************************************)
(* One handle of class LibSrt (native/srtcore/libsrt.cpp) and the helpers  *)
(* it is built from (native/srtcore/libsrt_utils.hpp).  Thread "owner"     *)
(* runs open, read, write and close one after the other; thread "ctl" may  *)
(* run quit and close at any moment, which is what the polled flag quitIO  *)
(* is for.  An operation is cut into steps where it touches a member the   *)
(* other thread touches, or calls a library function that may fail.  A     *)
(* definition whose comment says "Fault" stands next to the one it gets    *)
(* wrong; nothing uses it (see README, "Faults").                          *)
(***************************************************************************)
EXTENDS SrtApi

CONSTANTS Mode,          \* par.mode: "CALLER", "LISTENER" or "RENDEZVOUS"
          IoFlag,        \* ioFlag: "READ", "WRITE" or "READ_WRITE"
          NAddrs,        \* length of the list getaddrinfo returns
          RwTimeout,     \* par.rw_timeout > 0
          ListenTimeout, \* par.listen_timeout > 0
          PostOptions    \* par.inputbw >= 0 or par.oheadbw >= 0

ASSUME LibSrtAssumption ==
    /\ Mode \in {"CALLER", "LISTENER", "RENDEZVOUS"}
    /\ IoFlag \in {"READ", "WRITE", "READ_WRITE"}
    /\ NAddrs \in Nat \ {0}
    /\ {RwTimeout, ListenTimeout, PostOptions} \subseteq BOOLEAN

VARIABLES quitIO, sockFd, eid, maxPacketSize, \* the members that change
          pc,        \* where each thread is
          res,       \* open: the address being tried, counted from 1
          sock,      \* open: the socket of this attempt, not published yet
          writeEid,  \* open: the epoll that waits for the connection
          waitEid,   \* open: tmp_eid; read and write: the eid they wait on
          op,        \* the operation the owner is in, or was in last
          ok,        \* what that operation returned
          expired,   \* the timeout of the running wait has passed
          lateIO     \* srt_sendmsg and srt_recvmsg calls since quitIO was set

members == <<quitIO, sockFd, eid, maxPacketSize>>
locals  == <<res, sock, writeEid, waitEid, expired>>
vars    == <<apiVars, members, locals, pc, op, ok, lateIO>>

Thread == {"owner", "ctl"}
PayloadSize == 1316

OpenPc  == {"socket", "preOptions", "writeEpoll", "connect", "listen", "openCheck",
            "openPoll", "accept", "postOptions", "payloadSize", "ioEpoll",
            "publishEid", "publishSock", "giveUp"}
IoPc    == {"ioCheck", "ioPoll", "ioCall"}
ClosePc == {"releaseEpoll", "closeSock"}

Writes  == IoFlag \in {"WRITE", "READ_WRITE"}
IoModes == {"ERR"} \cup (IF Writes THEN {"OUT"} ELSE {"IN"})

PcTypeOK ==
    /\ pc \in [Thread -> {"new", "idle"} \cup OpenPc \cup IoPc \cup ClosePc]
    /\ pc["ctl"] \in {"idle"} \cup ClosePc

\* Every variable stays in its type: the program counter of each thread among its
\* labels, maxPacketSize the payload size or nothing, res inside the list
\* getaddrinfo returned.
TypeOK ==
    /\ ApiTypeOK
    /\ quitIO \in BOOLEAN
    /\ sockFd \in Int /\ eid \in Int
    /\ maxPacketSize \in {0, PayloadSize}
    /\ PcTypeOK
    /\ res \in 1..NAddrs
    /\ sock \in Int /\ writeEid \in Int /\ waitEid \in Int
    /\ op \in {"none", "open", "read", "write", "close"}
    /\ ok \in BOOLEAN
    /\ expired \in BOOLEAN
    /\ lateIO \in Nat

At(t, l)   == pc[t] = l
Goto(t, l) == pc' = [pc EXCEPT ![t] = l]

\* An operation of the owner ends and returns result r.
Return(r) == Goto("owner", "idle") /\ ok' = r

\* The constructor leaves quitIO, sockFd, eid and maxPacketSize uninitialized:
\* any value may be there until open() resets them.
Init ==
    /\ ApiInit
    /\ quitIO \in BOOLEAN /\ sockFd \in {-1, 1} /\ eid \in {-1, 1}
    /\ maxPacketSize \in {0, PayloadSize}
    /\ pc = [t \in Thread |-> IF t = "owner" THEN "new" ELSE "idle"]
    /\ res = 1 /\ sock = -1 /\ writeEid = -1 /\ waitEid = -1
    /\ op = "none" /\ ok = FALSE /\ expired = FALSE /\ lateIO = 0

-----------------------------------------------------------------------------
(* Waiting: libsrt_network_wait_fd and libsrt_network_wait_fd_timeout.     *)

\* libsrt_neterrno after a call that cannot fail with EASYNC{SND,RCV}: the
\* system's errno, or INT_MIN when there is none.
Neterrno == {"ERRNO", "INT_MIN"}

\* What libsrt_network_wait_fd(e, write) returns at the end of one poll.  (Fault:
\* a socket in the error array is polled again.)
WaitFdErrorRetried(e, write) ==
    IF ~Pollable(e) THEN Neterrno
    ELSE IF Reported(e) = {} \/ InReadArray(e) THEN {"EAGAIN"} ELSE {"OK"}
WaitFd(e, write) ==
    LET error == IF write THEN InReadArray(e) ELSE InWriteArray(e)
    IN  IF ~Pollable(e)        THEN Neterrno
        ELSE IF Reported(e) = {} THEN {"EAGAIN"}
        ELSE IF error            THEN {"EIO"}
        ELSE                          {"OK"}

\* The look at *int_quit at the top of every turn.  (Fault: there is none.)
NeverInterrupted == FALSE
Interrupted == quitIO

\* What the rest of a turn of libsrt_network_wait_fd_timeout yields; "EAGAIN" is
\* one more turn.  (Faults: the timeout is not looked at, or taken for success.)
WaitTurnNoTimeout(e, write, timeout) == WaitFd(e, write)
WaitTurnTimeoutOk(e, write, timeout) ==
    {IF r = "EAGAIN" /\ timeout /\ expired THEN "OK" ELSE r : r \in WaitFd(e, write)}
WaitTurn(e, write, timeout) ==
    {IF r = "EAGAIN" /\ timeout /\ expired THEN "ETIMEDOUT" ELSE r : r \in WaitFd(e, write)}

\* The timeout of the running wait passes.
ClockTick ==
    /\ \/ pc["owner"] \in {"openCheck", "openPoll"}
       \/ pc["owner"] \in {"ioCheck", "ioPoll"}
    /\ ~expired
    /\ expired' = TRUE
    /\ UNCHANGED <<apiVars, members, pc, res, sock, writeEid, waitEid, op, ok, lateIO>>

-----------------------------------------------------------------------------
(* LibSrt::open *)

\* The caller's side of the contract: open() is called on a handle that is new,
\* or failed to open, or was closed since, and no other thread is in close().
OpenStart ==
    /\ At("owner", "new") \/ (At("owner", "idle") /\ (op = "close" \/ (op = "open" /\ ~ok)))
    /\ At("ctl", "idle")
    /\ quitIO' = FALSE /\ sockFd' = -1 /\ eid' = -1 /\ maxPacketSize' = 0
    /\ op' = "open" /\ lateIO' = 0
    /\ \/ Goto("owner", "socket") /\ ok' = FALSE
       \/ Return(FALSE)                                  \* getaddrinfo fails
    /\ res' = 1
    /\ UNCHANGED <<apiVars, sock, writeEid, waitEid, expired>>

\* Leaving the scope of write_eid's guard: writeEidCleanUp.  (Fault: no release.)
WriteEidForgotten == writeEid' = -1 /\ UNCHANGED epoll
WriteEidCleanUp ==
    /\ epoll' = IF writeEid > 0 THEN AfterRelease(writeEid) ELSE epoll
    /\ writeEid' = -1

\* `break': give up on every address.
BreakLoop ==
    /\ WriteEidCleanUp
    /\ Goto("owner", "giveUp")
    /\ UNCHANGED res

\* `continue': on to the next address, if there is one.  (Fault: there always is.)
ContinuePastEnd ==
    /\ WriteEidCleanUp
    /\ Goto("owner", "socket") /\ res' = res + 1

ContinueLoop ==
    /\ WriteEidCleanUp
    /\ IF res < NAddrs THEN Goto("owner", "socket") /\ res' = res + 1
                       ELSE Goto("owner", "giveUp") /\ UNCHANGED res

\* srt_close of the socket of this attempt, where there is one.  (Fault: it is
\* forgotten.)
ForgetAttempt == status
CloseAttempt  == IF sock > 0 THEN AfterClose(sock) ELSE status

openOthers == <<members, op, ok, lateIO>>

CreateSocket ==
    /\ At("owner", "socket")
    /\ LET closed == CloseAttempt
       IN  \/ \E s \in SockId :
                 /\ FreshSock(s)
                 /\ status' = [closed EXCEPT ![s] = "init"]
                 /\ sock' = s
                 /\ Goto("owner", "preOptions")
           \/ /\ status' = closed                        \* srt_create_socket fails
              /\ sock' = -1
              /\ Goto("owner", "giveUp")
    /\ UNCHANGED <<ready, epoll, res, writeEid, waitEid, expired, openOthers>>

SetOptionsPre ==
    /\ At("owner", "preOptions")
    /\ \/ Goto("owner", "writeEpoll") /\ UNCHANGED <<epoll, writeEid, res>>
       \/ ContinueLoop
    /\ UNCHANGED <<status, ready, sock, waitEid, expired, openOthers>>

CreateWriteEpoll ==
    /\ At("owner", "writeEpoll")
    /\ \/ \E e \in EpollId :
             /\ FreshEpoll(e)
             /\ epoll' = AfterWatch(e, sock, {"ERR", "OUT"})
             /\ writeEid' = e
             /\ Goto("owner", IF Mode = "LISTENER" THEN "listen" ELSE "connect")
             /\ UNCHANGED res
       \/ BreakLoop
    /\ UNCHANGED <<status, ready, sock, waitEid, expired, openOthers>>

\* libsrt_listen up to the wait: srt_bind, srt_listen.
Listen ==
    /\ At("owner", "listen")
    /\ \/ /\ status' = [status EXCEPT ![sock] = "listening"]
          /\ Goto("owner", "openCheck") /\ expired' = FALSE
          /\ UNCHANGED <<epoll, writeEid, res>>
       \/ BreakLoop /\ UNCHANGED <<status, expired>>
    /\ UNCHANGED <<ready, sock, waitEid, openOthers>>

\* srt_bind when in RENDEZVOUS, then libsrt_listen_connect up to the wait.
Connect ==
    /\ At("owner", "connect")
    /\ \/ /\ status' = [status EXCEPT ![sock] = "connecting"]
          /\ Goto("owner", "openCheck") /\ expired' = FALSE
          /\ UNCHANGED <<epoll, writeEid, res>>
       \/ /\ Mode = "RENDEZVOUS" /\ BreakLoop            \* srt_bind fails
          /\ UNCHANGED <<status, expired>>
       \/ /\ \E code \in Neterrno :                      \* srt_connect fails
                IF code = "INT_MIN" THEN BreakLoop ELSE ContinueLoop
          /\ UNCHANGED <<status, expired>>
    /\ UNCHANGED <<ready, sock, waitEid, openOthers>>

OpenCheckQuit ==
    /\ At("owner", "openCheck")
    /\ IF Interrupted THEN BreakLoop
                 ELSE Goto("owner", "openPoll") /\ UNCHANGED <<epoll, writeEid, res>>
    /\ UNCHANGED <<status, ready, sock, waitEid, expired, openOthers>>

\* The listener goes on to accept with write_eid still open; any error ends it.
ListenPoll ==
    /\ At("owner", "openPoll") /\ Mode = "LISTENER"
    /\ \E r \in WaitTurn(writeEid, TRUE, ListenTimeout) :
          IF r \in {"OK", "EAGAIN"}
          THEN /\ Goto("owner", IF r = "OK" THEN "accept" ELSE "openCheck")
               /\ UNCHANGED <<epoll, writeEid, res>>
          ELSE BreakLoop
    /\ UNCHANGED <<status, ready, sock, waitEid, expired, openOthers>>

\* The caller is connected and drops write_eid, or tries the next address.
ConnectPoll ==
    /\ At("owner", "openPoll") /\ Mode # "LISTENER"
    /\ \E r \in WaitTurn(writeEid, TRUE, RwTimeout) :
          CASE r = "OK"      -> /\ WriteEidCleanUp
                                /\ Goto("owner", "postOptions")
                                /\ UNCHANGED res
            [] r = "EAGAIN"  -> /\ Goto("owner", "openCheck")
                                /\ UNCHANGED <<epoll, writeEid, res>>
            [] r = "INT_MIN" -> BreakLoop
            [] OTHER         -> ContinueLoop
    /\ UNCHANGED <<status, ready, sock, waitEid, expired, openOthers>>

\* What libsrt_listen returns for the socket s it accepted: `ret', the 0 of the wait.
\* (Fault: s.)
AcceptedSocket(s) == s
Accepted(s)       == 0

\* The rest of libsrt_listen: the accepted socket is made; open() closes the
\* listening socket and goes on with what it was given for the other.
Accept ==
    /\ At("owner", "accept")
    /\ \/ /\ \E s \in SockId :
                /\ FreshSock(s)
                /\ status' = [AfterClose(sock) EXCEPT ![s] = "connected"]
                /\ ready'  = [ready EXCEPT ![s] = {"OUT"}]
                /\ sock'   = Accepted(s)
          /\ Goto("owner", "postOptions")
          /\ UNCHANGED <<epoll, writeEid, res>>
       \/ BreakLoop /\ UNCHANGED <<status, ready, sock>> \* srt_accept fails
    /\ UNCHANGED <<waitEid, expired, openOthers>>

SetOptionsPost ==
    /\ At("owner", "postOptions")
    /\ \/ /\ PostOptions => sock \in LiveSocks
          /\ Goto("owner", IF Writes THEN "payloadSize" ELSE "ioEpoll")
          /\ UNCHANGED <<epoll, writeEid, res>>
       \/ PostOptions /\ ContinueLoop
    /\ UNCHANGED <<status, ready, sock, waitEid, expired, openOthers>>

\* The size SRT reports is kept only when it is positive.
StorePayloadSize(size) == maxPacketSize' = IF size > 0 THEN size ELSE maxPacketSize

GetPayloadSize ==
    /\ At("owner", "payloadSize")
    /\ \/ /\ sock \in LiveSocks
          /\ \E size \in {-1, 0, PayloadSize} : StorePayloadSize(size)
          /\ Goto("owner", "ioEpoll")
          /\ UNCHANGED <<epoll, writeEid, res>>
       \/ BreakLoop /\ UNCHANGED maxPacketSize
    /\ UNCHANGED <<status, ready, sock, waitEid, expired, quitIO, sockFd, eid, op, ok, lateIO>>

CreateIoEpoll ==
    /\ At("owner", "ioEpoll")
    /\ \/ /\ sock \in LiveSocks
          /\ \E e \in EpollId :
                FreshEpoll(e) /\ epoll' = AfterWatch(e, sock, IoModes) /\ waitEid' = e
          /\ Goto("owner", "publishEid")
          /\ UNCHANGED <<writeEid, res>>
       \/ BreakLoop /\ UNCHANGED waitEid
    /\ UNCHANGED <<status, ready, sock, expired, openOthers>>

PublishEid ==
    /\ At("owner", "publishEid")
    /\ eid' = waitEid
    /\ Goto("owner", "publishSock")
    /\ UNCHANGED <<apiVars, quitIO, sockFd, maxPacketSize, locals, op, ok, lateIO>>

PublishSock ==
    /\ At("owner", "publishSock")
    /\ sockFd' = sock
    /\ sock' = -1 /\ waitEid' = -1
    /\ WriteEidCleanUp
    /\ Return(TRUE)
    /\ UNCHANGED <<status, ready, quitIO, eid, maxPacketSize, res, expired, op, lateIO>>

\* After the loop, with no connection.  (Fault: the last socket is not closed.)
GiveUpOpenSocket ==
    /\ At("owner", "giveUp")
    /\ sock' = -1
    /\ Return(FALSE)
    /\ UNCHANGED <<apiVars, members, res, writeEid, waitEid, expired, op, lateIO>>

GiveUp ==
    /\ At("owner", "giveUp")
    /\ status' = CloseAttempt
    /\ sock' = -1
    /\ Return(FALSE)
    /\ UNCHANGED <<ready, epoll, members, res, writeEid, waitEid, expired, op, lateIO>>

OpenStep ==
    \/ CreateSocket \/ SetOptionsPre \/ CreateWriteEpoll \/ Listen \/ Connect
    \/ OpenCheckQuit \/ ListenPoll \/ ConnectPoll \/ Accept \/ SetOptionsPost
    \/ GetPayloadSize \/ CreateIoEpoll \/ PublishEid \/ PublishSock \/ GiveUp

-----------------------------------------------------------------------------
(* LibSrt::read and LibSrt::write *)

IoStart(o) ==
    /\ At("owner", "idle")
    /\ op' = o /\ ok' = FALSE
    /\ waitEid' = eid /\ expired' = FALSE
    /\ Goto("owner", "ioCheck")
    /\ UNCHANGED <<apiVars, members, res, sock, writeEid, lateIO>>

\* The read or write is over, with result r.
IoReturn(r) == Return(r) /\ waitEid' = -1

IoCheckQuit ==
    /\ At("owner", "ioCheck")
    /\ IF Interrupted THEN IoReturn(FALSE) ELSE Goto("owner", "ioPoll") /\ UNCHANGED <<ok, waitEid>>
    /\ UNCHANGED <<apiVars, members, res, sock, writeEid, expired, op, lateIO>>

\* Both read and write wait with write = 0.
IoPoll ==
    /\ At("owner", "ioPoll")
    /\ \E r \in WaitTurn(waitEid, FALSE, RwTimeout) :
          CASE r = "OK"     -> Goto("owner", "ioCall")  /\ UNCHANGED <<ok, waitEid>>
            [] r = "EAGAIN" -> Goto("owner", "ioCheck") /\ UNCHANGED <<ok, waitEid>>
            [] OTHER        -> IoReturn(FALSE)
    /\ UNCHANGED <<apiVars, members, res, sock, writeEid, expired, op, lateIO>>

\* srt_recvmsg or srt_sendmsg on whatever sockFd is by now: a success may use up
\* the readiness the wait reported, a failure leaves everything as it was.
IoCall ==
    /\ At("owner", "ioCall")
    /\ \/ /\ sockFd \in LiveSocks /\ status[sockFd] = "connected"
          /\ \/ ready' = [ready EXCEPT ![sockFd] = @ \ {IF op = "read" THEN "IN" ELSE "OUT"}]
             \/ ready' = ready
          /\ IoReturn(TRUE)
       \/ IoReturn(FALSE) /\ UNCHANGED ready
    /\ lateIO' = IF quitIO THEN lateIO + 1 ELSE lateIO
    /\ UNCHANGED <<status, epoll, members, res, sock, writeEid, expired, op>>

IoStep == IoCheckQuit \/ IoPoll \/ IoCall

-----------------------------------------------------------------------------
(* LibSrt::close and LibSrt::quit *)

\* close() begins.  (Fault: it does not set quitIO.)
CloseStartQuietly(t) ==
    /\ At(t, "idle") /\ ~At("owner", "new")
    /\ Goto(t, "releaseEpoll")
    /\ IF t = "owner" THEN op' = "close" /\ ok' = FALSE ELSE UNCHANGED <<op, ok>>
    /\ UNCHANGED <<apiVars, members, locals, lateIO>>

CloseStart(t) ==
    /\ At(t, "idle") /\ ~At("owner", "new")
    /\ quitIO' = TRUE
    /\ Goto(t, "releaseEpoll")
    /\ IF t = "owner" THEN op' = "close" /\ ok' = FALSE ELSE UNCHANGED <<op, ok>>
    /\ UNCHANGED <<apiVars, sockFd, eid, maxPacketSize, locals, lateIO>>

CloseEpoll(t) ==
    /\ At(t, "releaseEpoll")
    /\ epoll' = IF eid > 0 THEN AfterRelease(eid) ELSE epoll
    /\ eid'   = IF eid > 0 THEN -1 ELSE eid
    /\ Goto(t, "closeSock")
    /\ UNCHANGED <<status, ready, quitIO, sockFd, maxPacketSize, locals, op, ok, lateIO>>

CloseSock(t) ==
    /\ At(t, "closeSock")
    /\ status' = IF sockFd > 0 THEN AfterClose(sockFd) ELSE status
    /\ sockFd' = IF sockFd > 0 THEN -1 ELSE sockFd
    /\ Goto(t, "idle")
    /\ UNCHANGED <<ready, epoll, quitIO, eid, maxPacketSize, locals, op, ok, lateIO>>

CloseStep(t) == CloseEpoll(t) \/ CloseSock(t)

Quit ==
    /\ At("ctl", "idle") /\ ~At("owner", "new")
    /\ quitIO' = TRUE
    /\ UNCHANGED <<apiVars, sockFd, eid, maxPacketSize, locals, pc, op, ok, lateIO>>

-----------------------------------------------------------------------------
NetworkStep == Network /\ UNCHANGED <<members, locals, pc, op, ok, lateIO>>

Next ==
    \/ OpenStart \/ OpenStep
    \/ \E o \in {"read", "write"} : IoStart(o)
    \/ IoStep
    \/ \E t \in Thread : CloseStart(t) \/ CloseStep(t)
    \/ Quit
    \/ ClockTick
    \/ NetworkStep

Spec == Init /\ [][Next]_vars

\* A thread that is in a call keeps running (the scheduler), the clock goes on,
\* and SRT bounds a handshake.  Nothing obliges a thread to make a call, and
\* nothing obliges the peer to send or to acknowledge.
Fairness ==
    /\ WF_vars(OpenStep) /\ WF_vars(IoStep)
    /\ \A t \in Thread : WF_vars(CloseStep(t))
    /\ WF_vars(ClockTick)
    /\ WF_vars(Handshake /\ UNCHANGED <<members, locals, pc, op, ok, lateIO>>)

FairSpec == Spec /\ Fairness

-----------------------------------------------------------------------------
(* Safety *)

\* Every socket of this handle that is still open in the library is one the
\* handle can still close: the one open() is trying or the published one.  The
\* property is about the early exits of open() and about close() racing open();
\* a LISTENER loses the accepted socket and is not claimed to keep it.
NoSocketLeak == Mode # "LISTENER" => LiveSocks \subseteq {sock, sockFd}

\* The same for epoll instances: write_eid and tmp_eid while open() holds them,
\* and the published eid.  The guard writeEidCleanUp is what makes it so.
NoEpollLeak ==
    LiveEpolls \subseteq {writeEid, eid, IF At("owner", "publishEid") THEN waitEid ELSE eid}

\* Once open() has failed or the owner's close() has returned, whatever close()
\* the other thread is in meanwhile, the handle holds nothing: opening it again
\* forgets no socket and no epoll.
Reopenable == At("owner", "idle") /\ (op = "close" \/ (op = "open" /\ ~ok))
NothingHeldAtRest ==
    Reopenable => LiveEpolls = {} /\ (Mode # "LISTENER" => LiveSocks = {})

\* When open() has returned true and nobody asked to stop since it was called,
\* the published socket is a connected one (or has been lost since) and the
\* published epoll watches that very socket.
OpenedHandleUsable ==
    (op # "open" \/ ok) /\ ~quitIO /\ sockFd > 0 /\ ~At("owner", "new") =>
        /\ sockFd \in LiveSocks /\ status[sockFd] \in {"connected", "broken"}
        /\ eid \in LiveEpolls /\ epoll[eid].sock = sockFd

\* After quit() or close() the owner starts at most one more srt_sendmsg or
\* srt_recvmsg: the one whose wait had passed its look at quitIO already.
AtMostOneIoAfterQuit == lateIO <= 1

\* Unless somebody asked to stop, the message call goes to the socket whose
\* readiness the wait reported, and that socket is still open: read and write
\* use eid before the wait and sockFd after it, which close() resets one by one.
IoOnAwaitedSocket ==
    At("owner", "ioCall") /\ ~quitIO => sockFd \in LiveSocks /\ epoll[waitEid].sock = sockFd

\* The open() of a LISTENER never succeeds, with whatever options and flags and
\* although its peer was accepted: the steps after libsrt_listen all go to socket 0,
\* which the library refuses.
ListenerNeverOpens == Mode = "LISTENER" => ~(op = "open" /\ ok)

-----------------------------------------------------------------------------
(* The invariant that makes the safety properties inductive *)

\* The members and the locals of open(), by where the threads are.
Opening == pc["owner"] \in OpenPc

LocalsInv ==
    /\ At("owner", "new") => LiveSocks = {} /\ LiveEpolls = {} /\ At("ctl", "idle")
    /\ Opening => sockFd = -1 /\ (eid # -1 => At("owner", "publishSock"))
    /\ ~Opening => sock = -1 /\ writeEid = -1
    /\ pc["owner"] \in {"socket", "preOptions", "writeEpoll", "giveUp"} => writeEid = -1
    /\ pc["owner"] \in {"listen", "accept"} => Mode = "LISTENER"

OpInv ==
    /\ Opening => op = "open" /\ ~ok
    /\ pc["owner"] \in IoPc => op \in {"read", "write"}
    /\ pc["owner"] \in ClosePc => op = "close"
    /\ At("owner", "closeSock") => LiveEpolls = {}
    /\ Reopenable => sockFd <= 0

QuitInv ==
    /\ \A t \in Thread : pc[t] \in ClosePc => quitIO
    /\ lateIO = 0 \/ (lateIO = 1 /\ quitIO /\ pc["owner"] \notin {"ioPoll", "ioCall"})

IInv ==
    /\ TypeOK /\ LocalsInv /\ OpInv /\ QuitInv
    /\ NoSocketLeak /\ NoEpollLeak /\ NothingHeldAtRest

-----------------------------------------------------------------------------
(* Liveness *)

InCall == pc["owner"] \notin {"new", "idle"}

\* quit() and close() from another thread get the owner out of whatever wait it
\* is in, with no help from a timeout or from the network (a handshake's end, which
\* FairSpec promises, is not needed for it).
QuitInterrupts == (quitIO /\ InCall) ~> At("owner", "idle")

\* Every call returns: with rw_timeout set, whatever the network does.
CallsReturn == InCall ~> At("owner", "idle")

-----------------------------------------------------------------------------
(* The handle as its users see it *)

Phase == IF sockFd \in LiveSocks THEN "up" ELSE IF Opening THEN "opening" ELSE "down"

Handle == INSTANCE SrtHandle WITH phase <- Phase, stop <- quitIO, late <- lateIO

\* open(), close(), quit(), read() and write() implement SrtHandle: in particular
\* a handle comes up only from open(), goes down only after a request to stop,
\* and lets one message at most through after it.
ImplementsHandle == Handle!Spec

\* ... and every open() is settled, the network permitting or not.
ImplementsFairHandle == Handle!FairSpec

=============================================================================
