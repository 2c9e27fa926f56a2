------------------------------- MODULE SrtApi -------------------------------
(***************************************************************************)
(* The part of the external SRT library (srt/srt.h) that native/srtcore    *)
(* relies on: sockets, epoll instances and the events the library reports. *)
(* The library is not in the repository; what is written here is what the  *)
(* code assumes of it:                                                     *)
(*   - identifiers are positive, and a new one is never one used before;   *)
(*   - closing a socket or releasing an epoll that is gone is an error     *)
(*     without effect;                                                     *)
(*   - srt_epoll_wait reports a socket in its first (read) array when IN   *)
(*     or ERR is raised and subscribed, in its second (write) array when   *)
(*     OUT or ERR is; this is the reading on which libsrt_network_wait_fd  *)
(*     passes its `ready' and `error' arrays in either order.              *)
(***************************************************************************)
EXTENDS Integers

CONSTANTS MaxSock,   \* bound: sockets the library can ever create
          MaxEpoll   \* bound: epoll instances the library can ever create

ASSUME SrtApiAssumption == MaxSock \in Nat /\ MaxEpoll \in Nat

VARIABLES status,    \* life cycle of every socket
          ready,     \* level-triggered readiness of every socket
          epoll      \* every epoll instance: its state, socket and subscription

apiVars == <<status, ready, epoll>>

SockId  == 1..MaxSock
EpollId == 1..MaxEpoll

Status  == {"none", "init", "listening", "connecting", "connected", "broken",
            "closed"}
Event   == {"IN", "OUT", "ERR"}

LiveSocks  == {s \in SockId : status[s] \notin {"none", "closed"}}
LiveEpolls == {e \in EpollId : epoll[e].state = "live"}

ApiTypeOK ==
    /\ status \in [SockId -> Status]
    /\ ready  \in [SockId -> SUBSET {"IN", "OUT"}]
    /\ epoll  \in [EpollId -> [state : {"none", "live", "released"},
                               sock  : Int,
                               modes : SUBSET Event]]

ApiInit ==
    /\ status = [s \in SockId |-> "none"]
    /\ ready  = [s \in SockId |-> {}]
    /\ epoll  = [e \in EpollId |-> [state |-> "none", sock |-> 0, modes |-> {}]]

-----------------------------------------------------------------------------
(* Calls.  Each operator is the new value of the variable the call changes. *)

\* The identifier the next srt_create_socket or srt_accept returns.
FreshSock(s) ==
    /\ s \in SockId
    /\ status[s] = "none"
    /\ \A t \in SockId : t < s => status[t] # "none"

\* The identifier the next srt_epoll_create returns.
FreshEpoll(e) ==
    /\ e \in EpollId
    /\ epoll[e].state = "none"
    /\ \A f \in EpollId : f < e => epoll[f].state # "none"

\* srt_close(s)
AfterClose(s) ==
    IF s \in LiveSocks THEN [status EXCEPT ![s] = "closed"] ELSE status

\* srt_epoll_release(e)
AfterRelease(e) ==
    IF e \in LiveEpolls THEN [epoll EXCEPT ![e].state = "released"] ELSE epoll

\* srt_epoll_create and srt_epoll_add_usock(e, s, modes)
AfterWatch(e, s, modes) ==
    [epoll EXCEPT ![e] = [state |-> "live", sock |-> s, modes |-> modes]]

\* What the library would report about socket s, whoever asks.
Raised(s) ==
    CASE status[s] = "broken"                    -> Event
      [] status[s] \in {"connected", "listening"} -> ready[s]
      [] OTHER                                   -> {}

\* The events srt_epoll_wait(e) reports.
Reported(e) == Raised(epoll[e].sock) \cap epoll[e].modes

\* srt_epoll_wait can look at e: it is not released, nor is its socket closed.
Pollable(e) == e \in LiveEpolls /\ epoll[e].sock \in LiveSocks

InReadArray(e)  == Reported(e) \cap {"IN", "ERR"} # {}
InWriteArray(e) == Reported(e) \cap {"OUT", "ERR"} # {}

-----------------------------------------------------------------------------
(* The network, on its own initiative. *)

\* The handshake of a connecting socket completes; its send buffer is empty.
ConnectUp(s) ==
    /\ status[s] = "connecting"
    /\ status' = [status EXCEPT ![s] = "connected"]
    /\ ready'  = [ready EXCEPT ![s] = {"OUT"}]
    /\ UNCHANGED epoll

\* The handshake is refused or times out, or an established connection is lost.
Break(s) ==
    /\ status[s] \in {"connecting", "connected"}
    /\ status' = [status EXCEPT ![s] = "broken"]
    /\ UNCHANGED <<ready, epoll>>

\* Data arrives, or the peer acknowledges enough to make room for sending.
Arrive(s) ==
    /\ status[s] = "connected" /\ "IN" \notin ready[s]
    /\ ready' = [ready EXCEPT ![s] = @ \cup {"IN"}]
    /\ UNCHANGED <<status, epoll>>

Drain(s) ==
    /\ status[s] = "connected" /\ "OUT" \notin ready[s]
    /\ ready' = [ready EXCEPT ![s] = @ \cup {"OUT"}]
    /\ UNCHANGED <<status, epoll>>

\* A peer knocks at a listening socket.
Incoming(s) ==
    /\ status[s] = "listening" /\ ready[s] = {}
    /\ ready' = [ready EXCEPT ![s] = {"IN", "OUT"}]
    /\ UNCHANGED <<status, epoll>>

Network ==
    \E s \in SockId : ConnectUp(s) \/ Break(s) \/ Arrive(s) \/ Drain(s) \/ Incoming(s)

\* A handshake does not last for ever: SRT bounds it with SRTO_CONNTIMEO.
Handshake == \E s \in SockId : ConnectUp(s) \/ (status[s] = "connecting" /\ Break(s))
=============================================================================
