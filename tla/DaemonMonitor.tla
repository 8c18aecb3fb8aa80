--------------------------- MODULE DaemonMonitor ---------------------------
(***************************************************************************)
(* The topbar's watch over the Docker daemon: the connection machine       *)
(* (internal/services/docker/connection), the topbar's handlers that drive *)
(* it (internal/ui/components/topbar) and the ping they issue              *)
(* (docker.Service.Connect).                                               *)
(*                                                                         *)
(* Every handler returns at most one command and every command delivers    *)
(* exactly one message, so the program's pending work is a set of CHAINS,  *)
(* each of which is, at any time, one command that has yet to deliver its  *)
(* message, or is over.  Init starts two: the first ping and the grace     *)
(* timer.  Time is counted in seconds; a timer may fire late by any        *)
(* amount, never early, while a ping is answered within RequestTimeout.    *)
(***************************************************************************)
EXTENDS Integers

CONSTANTS RetryInterval,   \* seconds between a failure and the next attempt
          GracePeriod,     \* seconds the first attempt may take unnoticed
          RequestTimeout,  \* seconds before the HTTP client gives a ping up
          TickInterval,    \* seconds between two DaemonTicks
          PollInterval     \* seconds between two health checks

ASSUME Durations ==
    /\ RetryInterval \in Nat /\ GracePeriod \in Nat
    /\ RequestTimeout \in Nat /\ TickInterval \in Nat /\ PollInterval \in Nat

(* A ping is over before a retry can be due.                               *)
ASSUME TimeoutBeforeRetry == RequestTimeout < RetryInterval

VARIABLES state,    \* Machine.state
          retryAt,  \* Machine.retryAt, in seconds from now; Nil for no deadline
          pc,       \* what each chain is waiting for
          timer,    \* seconds before the wait of each chain is over
          daemon    \* whether the daemon answers 200 to a ping

vars == <<state, retryAt, pc, timer, daemon>>

Chains == {"first", "grace"}

States == {"Connecting", "Connected", "Unavailable"}

Nil == -1

(* A chain is a timer (grace, tick, poll), a ping on the wire, the answer  *)
(* to one on its way to Update, or done.                                   *)
Answers == {"DaemonConnected", "DaemonUnavailable"}
InFlight == {"ping"} \cup Answers
Pinging == InFlight \cup {"poll"}
Steps == InFlight \cup {"grace", "tick", "poll", "done"}

TypeOK ==
    /\ state \in States
    /\ retryAt \in Nat \cup {Nil}
    /\ pc \in [Chains -> Steps]
    /\ timer \in [Chains -> Nat]
    /\ daemon \in BOOLEAN

Init ==
    /\ state = "Connecting"
    /\ retryAt = Nil
    /\ pc = [c \in Chains |-> IF c = "first" THEN "ping" ELSE "grace"]
    /\ timer = [c \in Chains |-> IF c = "first" THEN RequestTimeout ELSE GracePeriod]
    /\ daemon \in BOOLEAN

-----------------------------------------------------------------------------
(* The commands a handler returns: c goes on as the given wait, or ends.   *)

Continue(c, step, delay) ==
    /\ pc' = [pc EXCEPT ![c] = step]
    /\ timer' = [timer EXCEPT ![c] = delay]

Connect(c) == Continue(c, "ping", RequestTimeout)
DaemonTickCmd(c) == Continue(c, "tick", TickInterval)
PollDaemonCmd(c) == Continue(c, "poll", PollInterval)
NoCmd(c) == Continue(c, "done", 0)

Unavailable ==
    /\ state' = "Unavailable"
    /\ retryAt' = RetryInterval

Fires(c, step) == pc[c] = step /\ timer[c] = 0

(* The ping is decided, by the answer, an error or the client's timeout,   *)
(* before its message is delivered.                                        *)
Ping(c) ==
    /\ pc[c] = "ping"
    /\ pc' = [pc EXCEPT ![c] = IF daemon THEN "DaemonConnected" ELSE "DaemonUnavailable"]
    /\ UNCHANGED <<state, retryAt, timer, daemon>>

(* Mutant: connected, and no health check is scheduled.                    *)
HandleConnectedNoPoll(c) ==
    /\ pc[c] = "DaemonConnected"
    /\ state' = "Connected"
    /\ retryAt' = Nil
    /\ NoCmd(c)
    /\ UNCHANGED daemon

HandleConnected(c) ==
    /\ pc[c] = "DaemonConnected"
    /\ state' = "Connected"
    /\ retryAt' = Nil
    /\ PollDaemonCmd(c)
    /\ UNCHANGED daemon

(* Mutant: the deadline is not set.                                        *)
HandleUnavailableNoDeadline(c) ==
    /\ pc[c] = "DaemonUnavailable"
    /\ state' = "Unavailable"
    /\ DaemonTickCmd(c)
    /\ UNCHANGED <<retryAt, daemon>>

(* The boolean the machine returns is ignored: a tick is always started.   *)
HandleUnavailable(c) ==
    /\ pc[c] = "DaemonUnavailable"
    /\ Unavailable
    /\ DaemonTickCmd(c)
    /\ UNCHANGED daemon

(* Mutant: the grace timer gives up whatever has been heard meanwhile.     *)
HandleGracePeriodExpiredAlways(c) ==
    /\ Fires(c, "grace")
    /\ Unavailable
    /\ DaemonTickCmd(c)
    /\ UNCHANGED daemon

HandleGracePeriodExpired(c) ==
    /\ Fires(c, "grace")
    /\ \/ state = "Connecting" /\ Unavailable /\ DaemonTickCmd(c)
       \/ state # "Connecting" /\ NoCmd(c) /\ UNCHANGED <<state, retryAt>>
    /\ UNCHANGED daemon

RetryDue == retryAt = 0

HandleTick(c) ==
    /\ Fires(c, "tick")
    /\ \/ /\ state = "Unavailable" /\ RetryDue
          /\ state' = "Connecting"
          /\ retryAt' = Nil
          /\ Connect(c)
       \/ /\ state = "Unavailable" /\ ~RetryDue
          /\ DaemonTickCmd(c)
          /\ UNCHANGED <<state, retryAt>>
       \/ /\ state # "Unavailable"
          /\ NoCmd(c)
          /\ UNCHANGED <<state, retryAt>>
    /\ UNCHANGED daemon

(* Mutant: the health check forgets to ping.                               *)
HandlePollNoPing(c) ==
    /\ Fires(c, "poll")
    /\ PollDaemonCmd(c)
    /\ UNCHANGED <<state, retryAt, daemon>>

HandlePoll(c) ==
    /\ Fires(c, "poll")
    /\ IF state = "Connected" THEN Connect(c) ELSE NoCmd(c)
    /\ UNCHANGED <<state, retryAt, daemon>>

-----------------------------------------------------------------------------
(* A second goes by.  It cannot take a ping past its timeout.              *)

CountDown(n) == IF n > 0 THEN n - 1 ELSE n

Elapse ==
    /\ retryAt > 0 \/ \E c \in Chains : timer[c] > 0
    /\ \A c \in Chains : pc[c] \in InFlight => timer[c] > 0
    /\ retryAt' = CountDown(retryAt)
    /\ timer' = [c \in Chains |-> CountDown(timer[c])]
    /\ UNCHANGED <<state, pc, daemon>>

(* The daemon stops or starts, whenever it likes.                          *)
Flip ==
    /\ daemon' = ~daemon
    /\ UNCHANGED <<state, retryAt, pc, timer>>

Handle(c) ==
    \/ HandleConnected(c)
    \/ HandleUnavailable(c)
    \/ HandleGracePeriodExpired(c)
    \/ HandleTick(c)
    \/ HandlePoll(c)

Next ==
    \/ \E c \in Chains : Ping(c) \/ Handle(c)
    \/ Elapse
    \/ Flip

(* Commands run in their own goroutines, Update handles every message sent *)
(* to it, and time passes.  Nothing is assumed of the daemon.              *)
Fairness ==
    /\ \A c \in Chains : WF_vars(Ping(c)) /\ WF_vars(Handle(c))
    /\ WF_vars(Elapse)

Spec == Init /\ [][Next]_vars /\ Fairness

-----------------------------------------------------------------------------
(* PROPERTIES                                                              *)

(* Whatever the state, some chain will leave it: a ping is out while       *)
(* Connecting, a tick with a deadline to compare with is running while     *)
(* Unavailable, a health check is scheduled or out while Connected.  Ticks *)
(* and polls stop themselves when they find another state, and the retry   *)
(* loop has no other owner: one stopped too early freezes the topbar.      *)
MonitorAlive ==
    /\ state = "Connecting" => \E c \in Chains : pc[c] \in InFlight
    /\ state = "Unavailable" => retryAt # Nil /\ \E c \in Chains : pc[c] = "tick"
    /\ state = "Connected" => \E c \in Chains : pc[c] \in Pinging

(* The daemon is pinged by one chain at a time: the grace timer, which may *)
(* find a retry's ping out and start a second retry loop, never leads to   *)
(* two health checks every two seconds or two answers that race.  It is    *)
(* the request timeout, shorter than the retry interval, that ensures it.  *)
SinglePing ==
    \A c, d \in Chains :
        pc[c] \in Pinging /\ pc[d] \in Pinging => c = d

(* A daemon that stays up is eventually shown Connected for good, and one  *)
(* that stays down is eventually no longer shown Connected.                *)
ShowsTruth ==
    /\ <>[]daemon => <>[](state = "Connected")
    /\ <>[]~daemon => <>[](state # "Connected")

(* An outage is always followed by an attempt: Unavailable never lasts.    *)
Retries == state = "Unavailable" ~> state # "Unavailable"
=============================================================================
