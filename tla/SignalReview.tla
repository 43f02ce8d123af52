----------------------------- MODULE SignalReview -----------------------------
(***************************************************************************)
(* ScamSignalsService.intake and ReviewQueueService, for the reports of    *)
(* one normalised indicator.  Neither runs in a transaction and the table  *)
(* of signals has no unique key: every look-up and every write is a step   *)
(* of its own, and a request may fail between two of them.                 *)
(***************************************************************************)
EXTENDS Naturals, FiniteSets, Sequences

CONSTANTS
    Callers,        \* requests that can be in progress at once
    Profiles,       \* baseReliabilityScore of the source types that have a profile
    TenantTypes,    \* the types of the tenants with partner keys
    Reports,        \* what reports carry: [desc, raw, cat : BOOLEAN]
    ReportBound,    \* bound on the reports
    ReviewBound,    \* bound on the reviews and claims
    FaultBound,     \* bound on the requests that fail
    NoCall

ASSUME SignalReviewAssumption ==
    /\ IsFiniteSet(Callers)
    /\ \A t \in DOMAIN Profiles : Profiles[t] \in 0..100
    /\ Reports \subseteq [desc : BOOLEAN, raw : BOOLEAN, cat : BOOLEAN]
    /\ ReportBound \in Nat /\ ReviewBound \in Nat /\ FaultBound \in Nat

(* The rows of the two tables, and the requests in progress.               *)
DECISION_STATUS ==
    [MARK_UNDER_REVIEW   |-> "UNDER_REVIEW",
     MARK_HIGH_RISK      |-> "HIGH_RISK_INDICATOR",
     PROMOTE_TO_VERIFIED |-> "VERIFIED_SCAM_INTELLIGENCE",
     REJECT              |-> "REJECTED",
     ARCHIVE             |-> "ARCHIVED"]

Triage == {"PATTERN_MATCH", "SUSPICIOUS_SIGNAL", "UNVERIFIED_REPORT"}
HighRisk == {"PATTERN_MATCH", "SUSPICIOUS_SIGNAL"}
SignalStatuses == Triage \union {DECISION_STATUS[d] : d \in DOMAIN DECISION_STATUS}

SignalRows ==
    [count : Nat \ {0}, desc : BOOLEAN, raw : BOOLEAN, cat : BOOLEAN, status : SignalStatuses,
     candidate : BOOLEAN]
\* What a new row counts up from.
NoSignal == [count |-> 0, desc |-> FALSE, raw |-> FALSE, cat |-> FALSE]
QueueRows ==
    [signal : Nat, status : {"PENDING", "IN_REVIEW", "COMPLETED"},
     decision : {"none"} \union DOMAIN DECISION_STATUS]

IntakeCalls ==
    [kind : {"intake"}, at : {"write", "append", "look", "queue"}, base : 0..100, dto : Reports,
     signal : Nat, row : SignalRows \union {NoSignal}, status : SignalStatuses \union {"none"}]
ClaimCalls == [kind : {"assign"}, at : {"write"}, item : Nat]
ReviewCalls ==
    [kind : {"review"}, at : {"write", "look", "close"}, signal : Nat,
     decision : DOMAIN DECISION_STATUS, candidate : BOOLEAN, item : Nat]
CallRecords == IntakeCalls \union ClaimCalls \union ReviewCalls

ASSUME NoCallAssumption == NoCall \notin CallRecords

VARIABLES
    signals,    \* the rows, in the order of creation
    queue,      \* RegistryReviewQueue, in the order of creation
    call,       \* the requests in progress
    reports,    \* history: reports whose row was written
    reviews,    \* reviews and claims so far
    faults,
    mixed,      \* history: pairs of kinds of requests that were in progress together
    broken      \* history: kinds of the requests that failed

signalVars == <<signals, queue, call, reports, reviews, faults, mixed, broken>>

smaller(a, b) == IF a < b THEN a ELSE b

\* The source type of a partner's report.
partnerSourceTypeFor(tenantType) ==
    CASE tenantType = "BANK" -> "BANK_REPORT"
      [] tenantType = "AGENCY" -> "GOVERNMENT_ADVISORY"
      [] tenantType = "INVESTIGATOR" -> "INVESTIGATOR"
      [] tenantType = "INTERNAL" -> "INTERNAL"
      [] OTHER -> "PARTNER_REPORT"

\* The three ways in: the public, a module of the system, a partner.
submitReport == {"USER_REPORT"}
submitFromModule == {"INTERNAL"}
submitPartnerReport == {partnerSourceTypeFor(t) : t \in TenantTypes}

\* A source type without a profile counts as a user's report.
BaseOf(source) == IF source \in DOMAIN Profiles THEN Profiles[source] ELSE 35
Bases == {BaseOf(t) : t \in submitReport \union submitFromModule \union submitPartnerReport}

\* Confidence: reliability, evidence, recency, repetition and category.
scoreSignal(base, s) ==
    smaller(100, ((base * 30 + 50) \div 100)
               + smaller(25, (IF s.desc THEN 8 ELSE 3) + (IF s.raw THEN 6 ELSE 0))
               + 10
               + smaller(15, s.count * 3)
               + (IF s.cat THEN 8 ELSE 0))

deriveStatus(count, confidence) ==
    CASE count >= 3 -> "PATTERN_MATCH"
      [] count < 3 /\ confidence >= 55 -> "SUSPICIOUS_SIGNAL"
      [] OTHER -> "UNVERIFIED_REPORT"

Open(i) == queue[i].status # "COMPLETED"
ItemsOf(s) == {i \in DOMAIN queue : queue[i].signal = s}

SignalReviewInit ==
    /\ signals = <<>>
    /\ queue = <<>>
    /\ call = [c \in Callers |-> NoCall]
    /\ reports = 0
    /\ reviews = 0
    /\ faults = 0
    /\ mixed = {}
    /\ broken = {}

\* A request begins: it is noted which others it overlaps.
BeginCall(c, r) ==
    /\ call[c] = NoCall
    /\ call' = [call EXCEPT ![c] = r]
    /\ mixed' = mixed \union {{r.kind, call[d].kind} : d \in {x \in Callers : call[x] # NoCall}}

MoveTo(c, at) == call' = [call EXCEPT ![c].at = at]
EndCall(c) == call' = [call EXCEPT ![c] = NoCall]

----------------------------------------------------------------------------
(* intake: submitReport, submitPartnerReport and submitFromModule.         *)

\* The profile of the source and the oldest signal of the indicator (0: none).
intake(c) ==
    /\ reports + Cardinality({d \in Callers : call[d] # NoCall /\ call[d].kind = "intake"}) < ReportBound
    /\ \E base \in Bases, dto \in Reports :
          BeginCall(c, [kind |-> "intake", at |-> "write", base |-> base, dto |-> dto,
                        signal |-> IF signals = <<>> THEN 0 ELSE 1,
                        row |-> IF signals = <<>> THEN NoSignal ELSE signals[1],
                        status |-> "none"])
    /\ UNCHANGED <<signals, queue, reports, reviews, faults, broken>>

\* The row is created, or the counted report and the new status written over it
\* (the status too, whatever a reviewer had decided).
WriteSignal(c) ==
    LET r == call[c]
        known == r.signal # 0
        old == IF known THEN r.row ELSE NoSignal
        row == [count |-> old.count + 1, desc |-> old.desc \/ r.dto.desc,
                raw |-> old.raw \/ r.dto.raw, cat |-> old.cat \/ r.dto.cat, status |-> "none",
                candidate |-> known /\ signals[r.signal].candidate]
        status == deriveStatus(row.count, scoreSignal(r.base, row))
        written == [row EXCEPT !.status = status]
    IN  /\ r # NoCall /\ r.kind = "intake" /\ r.at = "write"
        /\ signals' = IF known THEN [signals EXCEPT ![r.signal] = written]
                      ELSE Append(signals, written)
        /\ call' = [call EXCEPT ![c].at = "append", ![c].status = status,
                                ![c].signal = IF known THEN @ ELSE Len(signals) + 1]
        /\ reports' = reports + 1
        /\ UNCHANGED <<queue, reviews, faults, mixed, broken>>

\* Evidence, then the best-effort enrichments: when clustering succeeds the
\* signal is read again, otherwise the status this request wrote is kept.
Enrich(c) ==
    LET r == call[c] IN
    /\ r # NoCall /\ r.kind = "intake" /\ r.at = "append"
    /\ \E status \in {r.status, signals[r.signal].status} :
          IF status \in HighRisk
          THEN call' = [call EXCEPT ![c].at = "look", ![c].status = status]
          ELSE EndCall(c)
    /\ UNCHANGED <<signals, queue, reports, reviews, faults, mixed, broken>>

\* Mutant: any item of the signal will do.
LookForAnyItem(c) ==
    LET r == call[c] IN
    /\ r # NoCall /\ r.kind = "intake" /\ r.at = "look"
    /\ IF ItemsOf(r.signal) # {} THEN EndCall(c) ELSE MoveTo(c, "queue")
    /\ UNCHANGED <<signals, queue, reports, reviews, faults, mixed, broken>>

\* Is an item of the signal open?
LookForItem(c) ==
    LET r == call[c] IN
    /\ r # NoCall /\ r.kind = "intake" /\ r.at = "look"
    /\ IF \E i \in ItemsOf(r.signal) : Open(i) THEN EndCall(c) ELSE MoveTo(c, "queue")
    /\ UNCHANGED <<signals, queue, reports, reviews, faults, mixed, broken>>

QueueSignal(c) ==
    LET r == call[c] IN
    /\ r # NoCall /\ r.kind = "intake" /\ r.at = "queue"
    /\ queue' = Append(queue, [signal |-> r.signal, status |-> "PENDING", decision |-> "none"])
    /\ EndCall(c)
    /\ UNCHANGED <<signals, reports, reviews, faults, mixed, broken>>

----------------------------------------------------------------------------
(* The reviewers.                                                          *)

\* A reviewer claims an item, whatever its status.
assign(c) ==
    /\ reviews < ReviewBound
    /\ \E i \in DOMAIN queue :
          BeginCall(c, [kind |-> "assign", at |-> "write", item |-> i])
    /\ reviews' = reviews + 1
    /\ UNCHANGED <<signals, queue, reports, faults, broken>>

WriteClaim(c) ==
    LET r == call[c] IN
    /\ r # NoCall /\ r.kind = "assign"
    /\ queue' = [queue EXCEPT ![r.item].status = "IN_REVIEW"]
    /\ EndCall(c)
    /\ UNCHANGED <<signals, reports, reviews, faults, mixed, broken>>

\* The signal is read.
reviewSignal(c) ==
    /\ reviews < ReviewBound
    /\ \E s \in DOMAIN signals, d \in DOMAIN DECISION_STATUS :
          BeginCall(c, [kind |-> "review", at |-> "write", signal |-> s, decision |-> d,
                        candidate |-> signals[s].candidate, item |-> 0])
    /\ reviews' = reviews + 1
    /\ UNCHANGED <<signals, queue, reports, faults, broken>>

WriteDecision(c) ==
    LET r == call[c] IN
    /\ r # NoCall /\ r.kind = "review" /\ r.at = "write"
    /\ signals' = [signals EXCEPT ![r.signal].status = DECISION_STATUS[r.decision],
                                  ![r.signal].candidate = (r.decision = "PROMOTE_TO_VERIFIED") \/ r.candidate]
    /\ MoveTo(c, "look")
    /\ UNCHANGED <<queue, reports, reviews, faults, mixed, broken>>

\* The newest open item of the signal (0: none).
FindItem(c) ==
    LET r == call[c]
        open == {i \in ItemsOf(r.signal) : Open(i)}
    IN  /\ r # NoCall /\ r.kind = "review" /\ r.at = "look"
        /\ \E newest \in open \union {0} :
              /\ open # {} => newest \in open
              /\ \A i \in open : i <= newest
              /\ call' = [call EXCEPT ![c].at = "close", ![c].item = newest]
        /\ UNCHANGED <<signals, queue, reports, reviews, faults, mixed, broken>>

\* That item is completed, or a completed one is made for the record.
CloseItem(c) ==
    LET r == call[c]
        closed == [signal |-> r.signal, status |-> "COMPLETED", decision |-> r.decision]
    IN  /\ r # NoCall /\ r.kind = "review" /\ r.at = "close"
        /\ queue' = IF r.item # 0 THEN [queue EXCEPT ![r.item] = closed] ELSE Append(queue, closed)
        /\ EndCall(c)
        /\ UNCHANGED <<signals, reports, reviews, faults, mixed, broken>>

----------------------------------------------------------------------------
\* The database or the process fails: the request ends where it is.
FailCall(c) ==
    /\ call[c] # NoCall
    /\ faults < FaultBound
    /\ faults' = faults + 1
    /\ broken' = broken \union {call[c].kind}
    /\ EndCall(c)
    /\ UNCHANGED <<signals, queue, reports, reviews, mixed>>

SignalReviewNext ==
    \E c \in Callers :
        \/ intake(c) \/ WriteSignal(c) \/ Enrich(c) \/ LookForItem(c) \/ QueueSignal(c)
        \/ assign(c) \/ WriteClaim(c)
        \/ reviewSignal(c) \/ WriteDecision(c) \/ FindItem(c) \/ CloseItem(c)
        \/ FailCall(c)

SignalReviewSpec == SignalReviewInit /\ [][SignalReviewNext]_signalVars

----------------------------------------------------------------------------
SignalReviewTypeOK ==
    /\ signals \in Seq(SignalRows) /\ \A s \in DOMAIN signals : signals[s].count <= ReportBound
    /\ queue \in Seq(QueueRows) /\ \A i \in DOMAIN queue : queue[i].signal \in DOMAIN signals
    /\ call \in [Callers -> CallRecords \union {NoCall}]
    /\ reports \in 0..ReportBound /\ reviews \in 0..ReviewBound /\ faults \in 0..FaultBound

Busy(kinds) == \E c \in Callers : call[c] # NoCall /\ call[c].kind \in kinds

(* A signal that triage found suspicious has an open item in the review   *)
(* queue once its reports are taken in, unless an intake failed half way   *)
(* or ran beside a review, which may close the item the intake relied on.  *)
HighRiskQueued ==
    ~Busy({"intake", "review"}) /\ "intake" \notin broken /\ {"intake", "review"} \notin mixed =>
        \A s \in DOMAIN signals :
            signals[s].status \in HighRisk => \E i \in ItemsOf(s) : Open(i)

(* Reports of one indicator are merged: there is one signal and its        *)
(* reportCount is the number of reports, unless two intakes overlapped     *)
(* (two rows, or a lost count).                                            *)
ReportsMerged ==
    {"intake"} \notin mixed =>
        /\ Len(signals) <= 1
        /\ \A s \in DOMAIN signals : signals[s].count = reports

(* What a reviewer decided is on record: a signal with the status of a     *)
(* decision has an item of the queue with that decision, unless two        *)
(* reviews overlapped, or one failed before the item was written.          *)
DecisionOnRecord ==
    ~Busy({"review"}) /\ "review" \notin broken /\ {"review"} \notin mixed =>
        \A s \in DOMAIN signals :
            signals[s].status \notin Triage =>
                \E i \in ItemsOf(s) : /\ queue[i].decision \in DOMAIN DECISION_STATUS
                                      /\ DECISION_STATUS[queue[i].decision] = signals[s].status

\* The intake and the review of signals do what they promise: suspicious signals
\* wait for a reviewer, reports of one indicator are merged, decisions are recorded.
ReviewSound == HighRiskQueued /\ ReportsMerged /\ DecisionOnRecord
=============================================================================
