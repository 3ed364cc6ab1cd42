------------------------------ MODULE DnsCache ------------------------------
(***************************************************************************)
(* The agent's cache of DNS answers (_reconcile_dns and _query_domain of   *)
(* services/server_agent.py).  A domain is asked again when its time-out   *)
(* has run down; a failed lookup keeps the addresses last heard and backs  *)
(* off.                                                                    *)
(*                                                                         *)
(* Time is counted in iterations of the agent: wait is how long it still   *)
(* is until next_attempt_at.                                               *)
(***************************************************************************)
EXTENDS Integers, FiniteSets

CONSTANTS
  Domains,
  Addresses,
  Fails,           \* a lookup that raises
  InitialAnswers,  \* what DNS may say to begin with: a set of functions
  Ttls,            \* TTLs an answer may carry
  MinInterval,     \* dns_resolve_min_interval_seconds
  TtlFloor,        \* DEFAULT_DNS_TTL_FLOOR_SECONDS
  BackoffFactor,   \* DNS_FAILURE_BACKOFF_FACTOR
  BackoffMax       \* DNS_FAILURE_BACKOFF_MAX_SECONDS

ASSUME DurationAssumption ==
  /\ Ttls \subseteq Nat /\ IsFiniteSet(Ttls) /\ Ttls # {}
  /\ MinInterval \in Nat /\ TtlFloor \in Nat \ {0}
  /\ BackoffFactor \in Nat \ {0, 1} /\ BackoffMax \in Nat \ {0}

\* A lookup without A records raises (NoAnswer), so an answer is never empty.
Answers == {Fails} \cup (SUBSET Addresses \ {{}})

ASSUME AnswersAssumption == InitialAnswers \subseteq [Domains -> Answers]

VARIABLES
  answer,    \* what the resolver would say of each domain now
  cache,     \* _dns_cache: an entry for each domain of the last pass
  heard      \* the last answer to each of these domains (history)

dnsVars == <<answer, cache, heard>>

Larger(m, n) == IF m >= n THEN m ELSE n
Smaller(m, n) == IF m <= n THEN m ELSE n

DnsInit ==
  /\ answer \in InitialAnswers
  /\ cache = <<>>
  /\ heard = <<>>

\* A domain the cache does not know is asked at once.
Fresh == [ips |-> {}, wait |-> 0, backoff |-> 0]
Known(d) == IF d \in DOMAIN cache THEN cache[d] ELSE Fresh

\* Mutant: no limit.
BackoffAfterUnlimited(b) == Larger(b * BackoffFactor, Larger(MinInterval, TtlFloor))

BackoffAfter(b) ==
  Smaller(Larger(b * BackoffFactor, Larger(MinInterval, TtlFloor)), BackoffMax)

\* Mutant: a failure forgets the addresses.
FailedEmpty(e) ==
  [ips |-> {}, wait |-> BackoffAfter(e.backoff), backoff |-> BackoffAfter(e.backoff)]

Failed(e) ==
  [ips |-> e.ips, wait |-> BackoffAfter(e.backoff), backoff |-> BackoffAfter(e.backoff)]

Answered(ips, ttl) == [ips |-> ips, wait |-> Larger(ttl, MinInterval), backoff |-> 0]

\* The same domain after time has passed between two iterations.
Later(e, time) == [e EXCEPT !.wait = Larger(@ - time, 0)]

\* The entry a pass leaves for a domain.
Refreshed(d, time) ==
  LET e == Later(Known(d), time)
  IN IF e.wait > 0 THEN {e}
     ELSE IF answer[d] = Fails THEN {Failed(e)}
     ELSE {Answered(answer[d], ttl) : ttl \in Ttls}

\* _reconcile_dns, time after the previous pass: the cache is built anew, so a
\* domain no service has any more is forgotten.
ReconcileDns(domains, time) ==
  /\ cache' \in {f \in [domains -> UNION {Refreshed(d, time) : d \in domains}] :
                   \A d \in domains : f[d] \in Refreshed(d, time)}
  /\ heard' = [d \in domains |->
                 IF Later(Known(d), time).wait = 0 /\ answer[d] # Fails THEN answer[d]
                 ELSE IF d \in DOMAIN heard THEN heard[d] ELSE {}]
  /\ UNCHANGED answer

\* The process ends; the cache lives in its memory.
ForgetDns == cache' = <<>> /\ heard' = <<>> /\ UNCHANGED answer

ChangeAnswer(d) ==
  /\ \E a \in Answers \ {answer[d]} : answer' = [answer EXCEPT ![d] = a]
  /\ UNCHANGED <<cache, heard>>

-----------------------------------------------------------------------------
LongestWait == Larger(BackoffMax, CHOOSE n \in {Larger(t, MinInterval) : t \in Ttls} :
                                    \A t \in Ttls : n >= Larger(t, MinInterval))

DnsTypeOK ==
  /\ answer \in [Domains -> Answers]
  /\ DOMAIN cache \subseteq Domains
  /\ DOMAIN heard = DOMAIN cache
  /\ \A d \in DOMAIN cache : /\ cache[d].ips \subseteq Addresses
                             /\ cache[d].wait \in 0..LongestWait
                             /\ cache[d].backoff \in 0..BackoffMax

\* However lookups fail and succeed in turn, what is served is the answer heard
\* last; a domain in back-off waits for no longer than the back-off, and the
\* back-off is one the doubling reaches.
ServesLastAnswer ==
  \A d \in DOMAIN cache :
    /\ cache[d].ips = heard[d]
    /\ cache[d].backoff > 0 =>
         /\ cache[d].wait <= cache[d].backoff
         /\ cache[d].backoff >= Smaller(Larger(MinInterval, TtlFloor), BackoffMax)
=============================================================================
