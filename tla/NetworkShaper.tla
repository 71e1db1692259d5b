----------------------------- MODULE NetworkShaper -----------------------------
(* Which network observations the extension sends (shape.ts, NetworkShaper): a      *)
(* host that starts failing, a failing host that answers, and a sparse sample of    *)
(* the rest.  Its worker is thrown away when idle, and the memory with it.          *)
EXTENDS Integers, Sequences, FiniteSets, SequencesExt

CONSTANTS
  Hosts,
  Cooldown,  \* failureCooldownMs
  Sample,    \* successSampleMs
  MaxHosts,  \* maxHosts
  MaxTime,   \* bound: the clock
  MaxLives,  \* bound: lives of the worker
  MaxSent    \* bound: observations sent

NetworkShaperAssumption ==
  {Cooldown, Sample, MaxHosts, MaxTime, MaxLives, MaxSent} \subseteq Nat \ {0}

\* What a request came to: an error or a 5xx, a 2xx, a redirect, a 4xx.
Outcomes == {"failed", "ok", "moved", "refused"}

VARIABLES
  now,
  failing,        \* the hosts last reported as failing
  lastFailureAt,  \* when a failure of a host was last reported; a sequence, oldest host first
  lastSampleAt,   \* when a success of a host was last reported; likewise
  sent,           \* what was sent in this life of the worker
  lives,
  up              \* the hosts whose last answer was not an error, whether it was sent or not

vars == <<now, failing, lastFailureAt, lastSampleAt, sent, lives, up>>

Init == now = 0 /\ failing = {} /\ lastFailureAt = <<>> /\ lastSampleAt = <<>> /\ sent = <<>> /\ lives = 1 /\ up = {}

----
(* A Map keeps its keys in the order they were first set, and setting a key it has  *)
(* leaves the key where it is.                                                      *)
HostsOf(m) == {m[i].host : i \in DOMAIN m}
At(m, host) == m[CHOOSE i \in DOMAIN m : m[i].host = host].at
Set(m, host) ==
  IF host \in HostsOf(m) THEN [i \in DOMAIN m |-> IF m[i].host = host THEN [m[i] EXCEPT !.at = now] ELSE m[i]]
  ELSE Append(m, [host |-> host, at |-> now])
Delete(m, host) == SelectSeq(m, LAMBDA e : e.host # host)

NeverPruned(m) == m
Prune(m) == SubSeq(m, Len(m) - (IF Len(m) > MaxHosts THEN MaxHosts ELSE Len(m)) + 1, Len(m))

Within(m, host, gap) == host \in HostsOf(m) /\ now - At(m, host) < gap

Send(host, why) == Len(sent) < MaxSent /\ sent' = Append(sent, [host |-> host, why |-> why, at |-> now])

Marks(host) == failing \cup {host}

Failure(host) ==
  IF Within(lastFailureAt, host, Cooldown)
  THEN UNCHANGED <<failing, lastFailureAt, lastSampleAt, sent>>
  ELSE /\ Send(host, "failure")
       /\ lastFailureAt' = Prune(Set(lastFailureAt, host))
       /\ failing' = Marks(host)
       /\ lastSampleAt' = Prune(lastSampleAt)

SampleOf(host) ==
  IF Within(lastSampleAt, host, Sample)
  THEN UNCHANGED <<failing, lastFailureAt, lastSampleAt, sent>>
  ELSE /\ Send(host, "sample")
       /\ lastSampleAt' = Prune(Set(lastSampleAt, host))
       /\ lastFailureAt' = Prune(lastFailureAt)
       /\ UNCHANGED failing

Forgets(host) == failing' = failing \ {host} /\ lastFailureAt' = lastFailureAt
Recovered(host) == failing' = failing \ {host} /\ lastFailureAt' = Delete(lastFailureAt, host)

Recovery(host) ==
  /\ Send(host, "recovery")
  /\ Recovered(host)
  /\ lastSampleAt' = Set(lastSampleAt, host)

\* Any answer that is not an error proves a failing host is back; only a 2xx is sampled.
IsBack(host, outcome) == outcome \in {"ok", "moved"} /\ host \in failing

Admit(host, outcome) ==
  /\ IF outcome = "failed" THEN Failure(host)
     ELSE IF IsBack(host, outcome) THEN Recovery(host)
     ELSE IF outcome = "ok" THEN SampleOf(host)
     ELSE UNCHANGED <<failing, lastFailureAt, lastSampleAt, sent>>
  /\ up' = IF outcome \in {"ok", "moved"} THEN up \cup {host} ELSE IF outcome = "failed" THEN up \ {host} ELSE up
  /\ UNCHANGED <<now, lives>>

Tick == now < MaxTime /\ now' = now + 1 /\ UNCHANGED <<failing, lastFailureAt, lastSampleAt, sent, lives, up>>

\* The worker is thrown away with everything it remembered, and another one starts.
Restarts ==
  /\ lives < MaxLives /\ lives' = lives + 1
  /\ failing' = {} /\ lastFailureAt' = <<>> /\ lastSampleAt' = <<>> /\ sent' = <<>>
  /\ UNCHANGED <<now, up>>

Next == (\E host \in Hosts, outcome \in Outcomes : Admit(host, outcome)) \/ Tick \/ Restarts

Spec == Init /\ [][Next]_vars

----
TypeOK ==
  /\ now \in 0 .. MaxTime /\ failing \cup up \subseteq Hosts
  /\ \A m \in {lastFailureAt, lastSampleAt} : \A i, j \in DOMAIN m : m[i].host = m[j].host => i = j
  /\ Len(lastFailureAt) <= MaxHosts

SentOf(host) == SelectSeq(sent, LAMBDA e : e.host = host)
IsLast(host, whys) == SentOf(host) # <<>> /\ Last(SentOf(host)).why \in whys

\* What is remembered as failing is what the runtime was last told is failing: a sample never
\* stands in for a recovery, and a recovery is never said of a host that was not failing.
FailingAsTold == \A host \in Hosts : host \in failing <=> IsLast(host, {"failure"})

\* A host that fails again after it recovered is reported again at once: the cooldown is of
\* one outage and never hides the next.
NextOutageIsReported ==
  [][\A host \in Hosts : Failure(host) /\ IsLast(host, {"recovery"}) => sent' # sent]_vars

\* An answer of any kind that is not an error ends an outage, whatever else was sent of the
\* host a moment ago: what a failure opened is closed, by a redirect too.
AnsweringIsNotFailing == up \cap failing = {}

\* boundaries.test.ts:148: the memory of hosts is bounded.
FailingIsBounded == Cardinality(failing) <= MaxHosts
================================================================================
