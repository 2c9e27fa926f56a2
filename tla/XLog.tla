-------------------------------- MODULE XLog --------------------------------
(***************************************************************************)
(* XLog (native/base/xlog.hpp, xlog.cpp): two loggers, each a function-    *)
(* local static that is initialised from spdlog's registry under           *)
(* LoggerLock, and the path of the second.  A thread that reaches a static *)
(* another is initialising waits; an initialiser that throws leaves the    *)
(* static to the next thread.  A definition whose comment says "Fault" is  *)
(* used by nothing (see README, "Faults").                                 *)
(***************************************************************************)
EXTENDS Integers

CONSTANTS Logging,          \* the threads that log
          Path,             \* the paths they are given
          DefaultPath,      \* the one of the source, "/sdcard/XLive/log/sdk/sdk.log"
          Torn              \* what a copy of a string reads while another thread assigns it

Nobody == "nobody"
Loggers  == {"console", "text"}

ASSUME XLogAssumption ==
    /\ Logging \cap {Nobody, "unset", "set"} = {}
    /\ (Path \cup {DefaultPath, Torn}) \cap {Nobody, "absent"} = {}

VARIABLES TextLoggerPath,
          assigning,        \* the path that setTextPath() is assigning, or Nobody
          static,           \* per static: "unset", "set", or the thread at its initialiser
          LoggerLock,       \* the thread that holds it, or Nobody
          registry,         \* spdlog's: the file of each logger, or "absent"
          at,               \* where each thread is in log()
          path,             \* the argument of its get(), a copy
          late              \* TextLoggerPath was assigned during or after the last such copy

logVars == <<TextLoggerPath, assigning, static, LoggerLock, registry, at, path, late>>

LogInit ==
    /\ TextLoggerPath = DefaultPath /\ assigning = Nobody
    /\ static = [n \in Loggers |-> "unset"] /\ LoggerLock = Nobody
    /\ registry = [n \in Loggers |-> "absent"]
    /\ at = [t \in Logging |-> "out"] /\ path = [t \in Logging |-> "none"]
    /\ late = FALSE

GoTo(t, l) == at' = [at EXCEPT ![t] = l]

-----------------------------------------------------------------------------
\* setTextPath() takes no lock.
SetTextPath(p) ==
    /\ assigning = Nobody
    /\ assigning' = p /\ late' = TRUE
    /\ UNCHANGED <<TextLoggerPath, static, LoggerLock, registry, at, path>>

PathSet ==
    /\ assigning # Nobody
    /\ TextLoggerPath' = assigning /\ assigning' = Nobody
    /\ UNCHANGED <<static, LoggerLock, registry, at, path, late>>

Log(t) ==
    /\ at[t] = "out"
    /\ GoTo(t, "console")
    /\ UNCHANGED <<TextLoggerPath, assigning, static, LoggerLock, registry, path, late>>

\* console() and text() of log(): the second follows the first.
After(n) == IF n = "console" THEN "text" ELSE "out"

HaveLogger(t, n) ==
    /\ at[t] = n /\ static[n] = "set"
    /\ GoTo(t, After(n))
    /\ UNCHANGED <<TextLoggerPath, assigning, static, LoggerLock, registry, path, late>>

\* The arguments of get() are copied outside the lock.  (Fault: the copy is made
\* when the program starts.)
CopyAtStart == {DefaultPath}
Copies      == IF assigning = Nobody THEN {TextLoggerPath} ELSE {TextLoggerPath, assigning, Torn}

Initialise(t, n) ==
    /\ at[t] = n /\ static[n] = "unset"
    /\ static' = [static EXCEPT ![n] = t]
    /\ IF n = "text" THEN \E c \in Copies : /\ path' = [path EXCEPT ![t] = c]
                                            /\ late' = (assigning # Nobody)
                     ELSE UNCHANGED <<path, late>>
    /\ GoTo(t, "get")
    /\ UNCHANGED <<TextLoggerPath, assigning, LoggerLock, registry>>

Lock(t) ==
    /\ at[t] = "get" /\ LoggerLock = Nobody
    /\ LoggerLock' = t
    /\ GoTo(t, "locked")
    /\ UNCHANGED <<TextLoggerPath, assigning, static, registry, path, late>>

\* get(): a logger that is not registered is made.
Get(t, n) ==
    /\ at[t] = "locked" /\ static[n] = t
    /\ registry' = [registry EXCEPT ![n] = IF @ # "absent" THEN @
                                           ELSE IF n = "text" THEN path[t] ELSE "stdout"]
    /\ static' = [static EXCEPT ![n] = "set"]
    /\ LoggerLock' = Nobody
    /\ path' = [path EXCEPT ![t] = "none"]
    /\ GoTo(t, After(n))
    /\ UNCHANGED <<TextLoggerPath, assigning, late>>

\* CreateTextLog() throws if it cannot open the file, and so does log().  (Fault: the
\* exception leaves the mutex locked.)
ThrowsLocked(t) ==
    /\ at[t] = "locked" /\ static["text"] = t /\ registry["text"] = "absent"
    /\ static' = [static EXCEPT !["text"] = "unset"]
    /\ path' = [path EXCEPT ![t] = "none"]
    /\ GoTo(t, "out")
    /\ UNCHANGED <<TextLoggerPath, assigning, LoggerLock, registry, late>>

Throws(t) ==
    /\ at[t] = "locked" /\ static["text"] = t /\ registry["text"] = "absent"
    /\ static' = [static EXCEPT !["text"] = "unset"]
    /\ LoggerLock' = Nobody
    /\ path' = [path EXCEPT ![t] = "none"]
    /\ GoTo(t, "out")
    /\ UNCHANGED <<TextLoggerPath, assigning, registry, late>>

-----------------------------------------------------------------------------
LogStep(t) ==
    \/ \E n \in Loggers : HaveLogger(t, n) \/ Initialise(t, n) \/ Get(t, n)
    \/ Lock(t) \/ Throws(t)

LogNext ==
    \/ \E t \in Logging : Log(t) \/ LogStep(t)
    \/ (\E p \in Path : SetTextPath(p)) \/ PathSet

LogSpec == LogInit /\ [][LogNext]_logVars

\* A thread in log() runs; nobody has to log, and creation may throw for ever.
LogFairness == \A t \in Logging : WF_logVars(LogStep(t))

-----------------------------------------------------------------------------
\* The text logger writes to the path that was set, unless setTextPath() was called
\* after, or while, the thread that made the logger copied it: so it is enough to
\* set the path before the first line, or again after a line that threw, and a
\* later call has no effect.
LogsWhereSet ==
    registry["text"] # "absent" /\ ~late => registry["text"] = TextLoggerPath

\* Unless creation throws for ever, every log() returns, though threads wait for
\* each other at the statics and, inside them, at LoggerLock.
LogReturns ==
    <>[][\A t \in Logging : ~Throws(t)]_logVars =>
        \A t \in Logging : at[t] # "out" ~> at[t] = "out"
=============================================================================
