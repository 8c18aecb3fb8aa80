------------------------------ MODULE LogHosts ------------------------------
(***************************************************************************)
(* The service panel and its service hosts (internal/ui/components/        *)
(* servicepanel, servicehost): one log stream per service, opened and      *)
(* closed as state polls, stream failures and retry ticks come in.         *)
(*                                                                         *)
(* The panel hands every message to every host.  A stream is seen from its *)
(* host: what LogStreamer details (channels, Next, draining) is one step   *)
(* here.  Containers come and go by themselves.  Retry delays are left     *)
(* out: a tick comes at any time.                                          *)
(***************************************************************************)
EXTENDS Integers, FiniteSets

CONSTANTS Hosts,       \* the services of the project, each with its host
          MaxChanges,  \* bound on the changes of the containers
          MaxErrors    \* bound on the connections that fail

ASSUME HostsFinite == IsFiniteSet(Hosts)
ASSUME Bounds == MaxChanges \in Nat /\ MaxErrors \in Nat

VARIABLES cont,     \* the state of each service's container
          changes,  \* how often one of them has changed
          errors,   \* how many connections have failed
          poll,     \* the ServicesPolled under way: the states Ps saw, or NoPoll
          started,  \* streamerStarted of each host
          stream,   \* each host's stream
          failed,   \* stream failures on their way to Update
          ticks     \* LogStreamRetryTicks armed or on their way

docker == <<cont, changes>>
streams == <<started, stream>>
hostsVars == <<docker, errors, poll, streams, failed, ticks>>

ContStates == {"absent", "exited", "running"}
NoPoll == [s \in Hosts |-> "unknown"]
Kinds == {"LogStreamError", "LogStreamContainerNotFound"}

(* A stream is closed; waiting for its response; tailing the container;    *)
(* about to reach the end of a container's log that has stopped; failed    *)
(* with the message in its channel; or its reader has exited.              *)
StreamStates == {"closed", "connect", "tail", "eof", "exited"} \cup Kinds

HostsTypeOK ==
    /\ cont \in [Hosts -> ContStates]
    /\ changes \in 0..MaxChanges /\ errors \in 0..MaxErrors
    /\ poll \in [Hosts -> ContStates] \cup {NoPoll}
    /\ started \in [Hosts -> BOOLEAN]
    /\ stream \in [Hosts -> StreamStates]
    /\ failed \in [Hosts \X Kinds -> Nat]
    /\ ticks \in Nat

HostsInit ==
    /\ cont \in [Hosts -> ContStates]
    /\ changes = 0 /\ errors = 0
    /\ poll = NoPoll
    /\ started = [s \in Hosts |-> FALSE]
    /\ stream = [s \in Hosts |-> "closed"]
    /\ failed = [f \in Hosts \X Kinds |-> 0]
    /\ ticks = 0

-----------------------------------------------------------------------------
(* CONTAINERS: up, stop or crash, down.  A stop ends what tails it.        *)

Change(s, from, to) ==
    /\ changes < MaxChanges
    /\ cont[s] \in from
    /\ cont' = [cont EXCEPT ![s] = to]
    /\ changes' = changes + 1
    /\ UNCHANGED <<errors, poll, started, failed, ticks>>

Up(s) == Change(s, {"absent", "exited"}, "running") /\ UNCHANGED stream

Stop(s) ==
    /\ Change(s, {"running"}, "exited")
    /\ stream' = [stream EXCEPT ![s] = IF @ = "tail" THEN "eof" ELSE @]

Down(s) == Change(s, {"exited"}, "absent") /\ UNCHANGED stream

-----------------------------------------------------------------------------
(* READERS                                                                 *)

Reach(s, from, to) ==
    /\ stream[s] \in from
    /\ stream' = [stream EXCEPT ![s] = to]
    /\ UNCHANGED <<docker, poll, started, failed, ticks>>

(* The daemon answers 404 when there is no container; the log of a stopped *)
(* one is sent and ends.                                                   *)
Connect(s) ==
    /\ \/ cont[s] = "absent" /\ Reach(s, {"connect"}, "LogStreamContainerNotFound")
       \/ cont[s] = "exited" /\ Reach(s, {"connect"}, "eof")
       \/ cont[s] = "running" /\ Reach(s, {"connect"}, "tail")
    /\ UNCHANGED errors

(* io.EOF is not reported.                                                 *)
EndOfStream(s) == Reach(s, {"eof"}, "exited") /\ UNCHANGED errors

ConnectionFails(s) ==
    /\ errors < MaxErrors
    /\ Reach(s, {"connect", "tail", "eof"}, "LogStreamError")
    /\ errors' = errors + 1

(* Next returns the failure.                                               *)
Deliver(s) ==
    /\ stream[s] \in Kinds
    /\ failed' = [failed EXCEPT ![<<s, stream[s]>>] = @ + 1]
    /\ stream' = [stream EXCEPT ![s] = "exited"]
    /\ UNCHANGED <<docker, errors, poll, started, ticks>>

-----------------------------------------------------------------------------
(* THE PANEL AND ITS HOSTS                                                 *)

(* Mutant: the flag of a host that closes its stream stays set.            *)
SetStreamsFlagStays(C, S) ==
    /\ started' = [s \in Hosts |-> s \in S \/ started[s]]
    /\ stream' = [s \in Hosts |-> IF s \in S THEN "connect"
                                     ELSE IF s \in C THEN "closed" ELSE stream[s]]

(* The hosts in C close their streams, those in S start one.  Close waits  *)
(* for the reader and drops what it left in the channel.                   *)
SetStreams(C, S) ==
    /\ started' = [s \in Hosts |-> s \in S \/ (started[s] /\ s \notin C)]
    /\ stream' = [s \in Hosts |-> IF s \in S THEN "connect"
                                     ELSE IF s \in C THEN "closed" ELSE stream[s]]

Ps ==
    /\ poll = NoPoll
    /\ poll' = cont
    /\ UNCHANGED <<docker, errors, streams, failed, ticks>>

(* Mutant: a stream is opened whenever none is.                            *)
HandleServicesPolledStartsAll ==
    /\ poll # NoPoll
    /\ poll' = NoPoll
    /\ SetStreams({}, {s \in Hosts : ~started[s]})
    /\ UNCHANGED <<docker, errors, failed, ticks>>

HandleServicesPolled ==
    /\ poll # NoPoll
    /\ poll' = NoPoll
    /\ LET running == {s \in Hosts : poll[s] = "running"}
           started1 == {s \in Hosts : started[s]}
       IN  SetStreams(started1 \ running, running \ started1)
    /\ UNCHANGED <<docker, errors, failed, ticks>>

Take(s, k) ==
    /\ failed[s, k] > 0
    /\ failed' = [failed EXCEPT ![<<s, k>>] = @ - 1]
    /\ UNCHANGED <<docker, errors, poll>>

(* Mutant: a missing container is retried like an error.                   *)
HandleContainerNotFoundRetries(s) ==
    /\ Take(s, "LogStreamContainerNotFound")
    /\ SetStreams(Hosts, {})
    /\ ticks' = ticks + 1

(* No host looks at the service the failure names.                         *)
HandleContainerNotFound(s) ==
    /\ Take(s, "LogStreamContainerNotFound")
    /\ SetStreams(Hosts, {})
    /\ UNCHANGED ticks

(* Each host closes its stream and arms a tick of its own.                 *)
HandleStreamError(s) ==
    /\ Take(s, "LogStreamError")
    /\ SetStreams(Hosts, {})
    /\ ticks' = ticks + Cardinality(Hosts)

HandleRetryTick ==
    /\ ticks > 0
    /\ ticks' = ticks - 1
    /\ SetStreams({}, {s \in Hosts : ~started[s]})
    /\ UNCHANGED <<docker, errors, poll, failed>>

HostsNext ==
    \/ \E s \in Hosts :
          \/ Up(s) \/ Stop(s) \/ Down(s)
          \/ Connect(s) \/ EndOfStream(s) \/ ConnectionFails(s) \/ Deliver(s)
          \/ HandleContainerNotFound(s) \/ HandleStreamError(s)
    \/ Ps \/ HandleServicesPolled \/ HandleRetryTick

(* Requests end, goroutines run, timers fire, the state poll goes on and   *)
(* Update handles every message.                                           *)
HostsFairness ==
    /\ \A s \in Hosts :
          /\ WF_hostsVars(Connect(s)) /\ WF_hostsVars(EndOfStream(s)) /\ WF_hostsVars(Deliver(s))
          /\ WF_hostsVars(HandleContainerNotFound(s)) /\ WF_hostsVars(HandleStreamError(s))
    /\ WF_hostsVars(Ps) /\ WF_hostsVars(HandleServicesPolled) /\ WF_hostsVars(HandleRetryTick)

HostsSpec == HostsInit /\ [][HostsNext]_hostsVars /\ HostsFairness

-----------------------------------------------------------------------------
(* PROPERTIES                                                              *)

(* Polls repair what the failures of other services' streams undo: in the  *)
(* end the host of a service that runs on has a stream started for good.   *)
RunningStarted ==
    \A s \in Hosts : <>[](cont[s] = "running") => <>[]started[s]

(* And the host of a service that stays down has none, though retry ticks  *)
(* start streams of services that do not run.                              *)
StoppedClosed ==
    \A s \in Hosts : <>[](cont[s] # "running") => <>[]~started[s]

(* The log of a service that runs on is tailed.                            *)
LiveTail ==
    \A s \in Hosts : <>[](cont[s] = "running") => []<>(stream[s] = "tail")

(* The stream of service s as HostedStream has it.                         *)
Stage(s) ==
    CASE stream[s] = "closed" -> "none"
      [] stream[s] = "exited" -> "over"
      [] stream[s] \in Kinds -> stream[s]
      [] OTHER -> "live"

ReportedBy(s) == [k \in Kinds |-> failed[s, k]]

Hosted(s) == INSTANCE HostedStream
               WITH Failures <- Kinds, open <- started[s],
                    stage <- Stage(s), reported <- ReportedBy(s)

(* A host has no other stream than LogStreamer's: for every service, what  *)
(* polls, ticks and other services' failures do here is what HostedStream  *)
(* allows, a failure closing the stream of the service it names among it.  *)
StreamSpecs ==
    /\ \A s \in Hosts : Hosted(s)!Init
    /\ [][\A s \in Hosts : [Hosted(s)!Next]_(Hosted(s)!vars)]_hostsVars
=============================================================================
