------------------------------ MODULE RateLoop ------------------------------
(***************************************************************************)
(* The control loop between a DKMS and the SDN, for one peer of the DKMS.  *)
(* The generator reports the demand of the peer (run_demand_loop), keyed   *)
(* in the SDN by the grade the DKMS believes the peer is reached with; the *)
(* sweeper drops reports nobody renews; a recomputation turns the registry *)
(* into rates per grade; the DKMS polls them (run_rate_refresh_loop) and   *)
(* with them learns the grade.  Calls are lost, answers come late, the     *)
(* topology changes and the SDN restarts.                                  *)
(***************************************************************************)
EXTENDS Naturals, FiniteSets

CONSTANTS
  MaxAttempts,  \* MAX_ATTEMPTS of run_demand_loop
  Ttl,          \* demand_ttl_secs, in demand ticks
  MaxChanges,   \* bound: changes of the topology and restarts of the SDN
  MaxFaults     \* bound: calls that fail

VARIABLES
  reach,     \* how the peer is reached: "qkd", "pqc", "none"
  known,     \* whether the SDN knows the DKMS
  registry,  \* DemandRegistry: for each reported grade, its age in demand ticks
  snapshot,  \* mcf_snapshot: the grades the peer has a rate for
  answer,    \* an answer of GET /rate on its way, <<>> if none
  rates,     \* rates_enc and qkd_avail: [grades, qkd]
  report,    \* the report being posted: [grade, attempt], <<>> if none
  changes, faults

loopVars == <<reach, known, registry, snapshot, answer, rates, report, changes, faults>>

Grade == {"qkd", "pqc"}

\* McmcfInputs::build, for the pair: the natural grade always, the other if it is
\* reported and can be routed; nothing for a DKMS that is not there.
Natural == IF reach = "qkd" THEN "qkd" ELSE "pqc"
Commodities ==
  {g \in Grade : /\ known
                 /\ g = "qkd" => reach = "qkd"
                 /\ g = Natural \/ g \in DOMAIN registry}

\* Until the SDN says otherwise a peer is taken to be reached with QKD.
Unheard == [grades |-> {}, qkd |-> TRUE]

Init ==
  /\ reach = "qkd" /\ known = TRUE
  /\ registry = <<>> /\ snapshot = {}
  /\ answer = <<>> /\ rates = Unheard /\ report = <<>>
  /\ changes = 0 /\ faults = 0

-----------------------------------------------------------------------------
(* The DKMS *)

\* A tick of the demand loop: what is known now is what will be posted, in every
\* attempt.  Every report that is not this one grows older.
BuildDemandReport ==
  /\ report = <<>>
  /\ report' = <<[grade |-> IF rates.qkd THEN "qkd" ELSE "pqc", attempt |-> 1]>>
  /\ registry' = [g \in DOMAIN registry |-> IF registry[g] > Ttl THEN registry[g]
                                            ELSE registry[g] + 1]
  /\ UNCHANGED <<reach, known, snapshot, answer, rates, changes, faults>>

\* DemandRegistry::ingest: the report takes the place of that of its grade.
Ingest(g) == [h \in DOMAIN registry \cup {g} |-> IF h = g THEN 0 ELSE registry[h]]

PostDemand ==
  /\ report # <<>>
  /\ registry' = Ingest(report[1].grade)
  /\ report' = <<>>
  /\ UNCHANGED <<reach, known, snapshot, answer, rates, changes, faults>>

\* The call fails, before or after the SDN applied it: again, three times at most.
PostFails ==
  /\ report # <<>> /\ faults < MaxFaults
  /\ registry' \in {registry, Ingest(report[1].grade)}
  /\ report' = IF report[1].attempt < MaxAttempts
               THEN <<[report[1] EXCEPT !.attempt = @ + 1]>> ELSE <<>>
  /\ faults' = faults + 1
  /\ UNCHANGED <<reach, known, snapshot, answer, rates, changes>>

\* GET /rate: not found for a DKMS the topology does not hold, else the grades of
\* the snapshot, which may be none, and the topology of this moment.
GetRate ==
  /\ answer = <<>>
  /\ answer' = <<[ok |-> known, grades |-> snapshot, qkd |-> reach = "qkd"]>>
  /\ UNCHANGED <<reach, known, registry, snapshot, rates, report, changes, faults>>

\* A good answer takes the place of all that was known: a peer it does not name is
\* as one never heard of.  A failure leaves what was known.
Refreshed(a) ==
  CASE ~a.ok -> rates
    [] a.ok /\ a.grades = {} -> Unheard
    [] OTHER -> [grades |-> a.grades, qkd |-> a.qkd]

RatesRefreshed ==
  /\ answer # <<>>
  /\ \/ rates' = Refreshed(answer[1]) /\ UNCHANGED faults
     \/ faults < MaxFaults /\ faults' = faults + 1 /\ rates' = rates
  /\ answer' = <<>>
  /\ UNCHANGED <<reach, known, registry, snapshot, report, changes>>

-----------------------------------------------------------------------------
(* The SDN *)

\* The sweeper: reports older than the TTL go.
EvictOlderThan ==
  /\ \E g \in DOMAIN registry : registry[g] > Ttl
  /\ registry' = [g \in {h \in DOMAIN registry : registry[h] <= Ttl} |-> registry[g]]
  /\ UNCHANGED <<reach, known, snapshot, answer, rates, report, changes, faults>>

RecomputeMcf ==
  /\ snapshot # Commodities
  /\ snapshot' = Commodities
  /\ UNCHANGED <<reach, known, registry, answer, rates, report, changes, faults>>

Relink ==
  /\ changes < MaxChanges
  /\ reach' \in {"qkd", "pqc", "none"} \ {reach}
  /\ changes' = changes + 1
  /\ UNCHANGED <<known, registry, snapshot, answer, rates, report, faults>>

Restart ==
  /\ changes < MaxChanges
  /\ known' = FALSE /\ registry' = <<>> /\ snapshot' = {}
  /\ changes' = changes + 1
  /\ UNCHANGED <<reach, answer, rates, report, faults>>

\* The announcer registers the DKMS with its next heartbeat.
Announce ==
  /\ ~known /\ known' = TRUE
  /\ UNCHANGED <<reach, registry, snapshot, answer, rates, report, changes, faults>>

Next ==
  \/ BuildDemandReport \/ PostDemand \/ PostFails \/ GetRate \/ RatesRefreshed
  \/ EvictOlderThan \/ RecomputeMcf \/ Relink \/ Restart \/ Announce

\* The loops keep their periods, the sweeper and the recomputation theirs.
Fairness ==
  /\ WF_loopVars(BuildDemandReport) /\ WF_loopVars(PostDemand)
  /\ WF_loopVars(GetRate) /\ WF_loopVars(RatesRefreshed)
  /\ WF_loopVars(EvictOlderThan) /\ WF_loopVars(RecomputeMcf) /\ WF_loopVars(Announce)

FairSpec == Init /\ [][Next]_loopVars /\ Fairness

-----------------------------------------------------------------------------
(* Properties *)

TypeOK ==
  /\ reach \in {"qkd", "pqc", "none"} /\ known \in BOOLEAN
  /\ DOMAIN registry \subseteq Grade /\ \A g \in DOMAIN registry : registry[g] \in 0 .. Ttl + 1
  /\ snapshot \subseteq Grade
  /\ rates \in [grades : SUBSET Grade, qkd : BOOLEAN]
  /\ report # <<>> => report[1].grade \in Grade /\ report[1].attempt \in 1 .. MaxAttempts

Settled ==
  /\ rates = [grades |-> {Natural}, qkd |-> reach = "qkd"]
  /\ snapshot = {Natural}
  /\ DOMAIN registry \subseteq {Natural}

\* The loop settles: once the topology stops changing and calls stop failing, the
\* generator has rates for the grade the peer is reached with and for no other,
\* and so has the registry: the report of a grade that is no longer used does not
\* stay a ghost commodity, nor does the demand loop keep renewing it.
LoopSettles == <>[]Settled
=============================================================================
