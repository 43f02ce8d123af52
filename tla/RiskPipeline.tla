----------------------------- MODULE RiskPipeline -----------------------------
(***************************************************************************)
(* What happens on a user's device and in the services that watch it: risk *)
(* events and the FreezeLock intervention on the device session, ScamMirror*)
(* simulations, authenticity checks and the risk fusion, and the registry  *)
(* of models they trace to.  A request is the list of the writes it still  *)
(* has to make; requests interleave between writes and may die there.      *)
(***************************************************************************)
EXTENDS Scoring, Sequences, SequencesExt

CONSTANTS
    Telemetry,     \* reports of FreezeGuard: sets of what the device saw
    Phrases,       \* texts for A1ScamShield: sets of phrases they contain
    Inputs,        \* texts for ScamMirror: [secret, tactics]
    Versions,      \* model versions of one service
    BookBound,     \* requests
    LossesBound    \* requests that die

ASSUME PipelineAssumption ==
    /\ BookBound \in Nat /\ LossesBound \in Nat
    /\ \A i \in Inputs : i.secret \in BOOLEAN

VARIABLES
    area,          \* the rows in play: session, mirror, checks or models
    session,       \* sessions: status, endedAt set or not
    sim,           \* scam_mirror_sessions
    learned,       \* graph nodes of kind SCAM_PHRASE
    fails,         \* authenticity checks with result FAIL
    models,        \* model_registry: status of each version
    book,          \* the requests: what they are, have read, have to do and have done
    losses,
    clashed        \* history: what overlapped

pipeVars == <<area, session, sim, learned, fails, models, book, losses, clashed>>

NoSim == [status |-> "none", turns |-> {}, tactics |-> {}, pause |-> FALSE, evidence |-> "none"]

PipelineInit ==
    /\ area \in {"session", "mirror", "checks", "models"}
    /\ session = [status |-> "none", endedAt |-> FALSE]
    /\ sim = NoSim /\ learned = {} /\ fails = 0
    /\ models = [v \in Versions |-> "none"]
    /\ book = <<>> /\ losses = 0
    /\ clashed = {}

----------------------------------------------------------------------------
(* Requests.                                                               *)

Request(op, todo) ==
    [op |-> op, todo |-> todo, made |-> {}, died |-> FALSE, level |-> "LOW", input |-> NoSim,
     turns |-> {}, tactics |-> {}, counted |-> 0, before |-> 0, version |-> "none", status |-> "none"]
Running(i) == book[i].todo # <<>> /\ ~book[i].died
Overlap(i, ops) == \E j \in DOMAIN book \ {i} : Running(j) /\ book[j].op \in ops

Ask(where, r) ==
    /\ area = where
    /\ Len(book) < BookBound
    /\ book' = Append(book, r)
    /\ clashed' = clashed \union {book[j].op : j \in {k \in DOMAIN book : Running(k)}}
    /\ UNCHANGED <<area, session, sim, learned, fails, models, losses>>

\* The write at the head of the list, noted under a name.
Does(i, where, steps) == area = where /\ Running(i) /\ Head(book[i].todo) \in steps
Note(i, name) == book' = [book EXCEPT ![i].todo = Tail(@), ![i].made = @ \union {name}]

\* Writes that only leave a row or an Evidence Vault entry of their own.
Records == {"riskEvent", "riskLog", "riskAlert", "freeze", "freezeLog", "pauseAlert", "intervening",
            "startLog", "sessionEvent", "endLog", "abortLog", "finishLog", "decision", "checkLog", "inconclusive",
            "journey", "journeyDecision", "victim", "victimDecision", "move", "moveDecision", "fusion"}
Record(i) ==
    /\ Does(i, area, Records)
    /\ Note(i, Head(book[i].todo))
    /\ UNCHANGED <<area, session, sim, learned, fails, models, losses, clashed>>

Perish(i) ==
    /\ Running(i)
    /\ losses < LossesBound
    /\ losses' = losses + 1
    /\ book' = [book EXCEPT ![i].died = TRUE]
    /\ UNCHANGED <<area, session, sim, learned, fails, models, clashed>>

----------------------------------------------------------------------------
(* Device sessions, risk events and the intervention.                      *)

\* One session is followed: it starts once.
start == (\A j \in DOMAIN book : book[j].op # "start") /\ Ask("session", Request("start", <<"session", "startLog">>))
recordEvent == session.status # "none" /\ Ask("session", Request("event", <<"sessionEvent">>))
\* An ended session is returned as it is.
end == session.status \notin {"none", "ENDED"} /\ Ask("session", Request("end", <<"end", "endLog">>))

freezeSteps == <<"freeze", "flag", "freezeLog", "pauseAlert">>
trigger == Ask("session", Request("freeze", freezeSteps))

\* Mutant: the event says that FreezeLock intervened before it does.
freezeAfterwards(level) ==
    <<"riskEvent", "riskLog">> \o (IF level \in {"HIGH", "CRITICAL"} THEN <<"riskAlert">> ELSE <<>>)
       \o (IF level = "CRITICAL" THEN <<"intervening">> \o freezeSteps ELSE <<>>)

riskSteps(level) ==
    <<"riskEvent", "riskLog">> \o (IF level \in {"HIGH", "CRITICAL"} THEN <<"riskAlert">> ELSE <<>>)
       \o (IF level = "CRITICAL" THEN freezeSteps \o <<"intervening">> ELSE <<>>)

createRiskEvent(signals) ==
    LET level == levelForScore(clampScore(MapThenSumSet(LAMBDA s : SIGNAL_WEIGHTS[s], signals)))
    IN  Ask("session", [Request("risk", riskSteps(level)) EXCEPT !.level = level])

\* FreezeGuard: telemetry without an indicator makes no risk event.
signalsOf(seen) ==
    {x[2] : x \in {y \in {<<"remoteAccessTools", "REMOTE_ACCESS">>, <<"remoteInput", "REMOTE_INPUT">>,
                          <<"clipboardHijack", "CLIPBOARD_HIJACK">>, <<"screenSharing", "SCREEN_SHARE">>,
                          <<"suspiciousBrowser", "SUSPICIOUS_BROWSER">>} : y[1] \in seen}}
       \union (IF "bankingSiteOpen" \in seen /\ seen \intersect {"screenSharing", "remoteAccessTools"} # {}
               THEN {"DEVICE_COMPROMISE"} ELSE {})
ingestTelemetry(seen) == signalsOf(seen) # {} /\ createRiskEvent(signalsOf(seen))

\* A1ScamShield: phrases by the signal they raise.
SCAM_PHRASE_LIBRARY ==
    [doNotTellAnyone |-> "SECRECY", safeAccount |-> "FAKE_AUTHORITY", installAnydesk |-> "REMOTE_ACCESS",
     giftCard |-> "GIFT_CARD_REQUEST", arrest |-> "THREAT_LANGUAGE", actNow |-> "URGENCY",
     bitcoin |-> "CRYPTO_TRANSFER", wireTransfer |-> "PAYMENT_PRESSURE", doNotHangUp |-> "ISOLATION"]
detectScamLanguage(text) == {SCAM_PHRASE_LIBRARY[p] : p \in text \intersect DOMAIN SCAM_PHRASE_LIBRARY}
analyze(text) == detectScamLanguage(text) # {} /\ createRiskEvent(detectScamLanguage(text))

\* FreezeLock flags the session it is told of, whatever its status; told of none, or of
\* another, it leaves this one alone.
SessionWrite(i) ==
    /\ Does(i, "session", {"session", "flag", "end"})
    /\ \E name \in (IF Head(book[i].todo) # "flag" THEN {Head(book[i].todo)}
                    ELSE IF session.status = "none" THEN {"noFlag"} ELSE {"flag", "noFlag"}) :
          /\ session' = CASE name = "session" -> [status |-> "ACTIVE", endedAt |-> FALSE]
                          [] name = "end" -> [status |-> "ENDED", endedAt |-> TRUE]
                          [] name = "flag" -> [session EXCEPT !.status = "FLAGGED"]
                          [] OTHER -> session
          /\ Note(i, name)
    /\ UNCHANGED <<area, sim, learned, fails, models, losses, clashed>>

----------------------------------------------------------------------------
(* ScamMirror.                                                             *)

startMirror ==
    /\ sim = NoSim
    /\ area = "mirror"
    /\ sim' = [NoSim EXCEPT !.status = "ACTIVE"]
    /\ UNCHANGED <<area, session, learned, fails, models, book, losses, clashed>>

sanitize(input) == ~input.secret
requireActiveSession == sim.status = "ACTIVE"

\* A text with a real credential aborts; another becomes a turn, appended to the
\* turns and tactics that were read.
recordInput(input) ==
    /\ requireActiveSession
    /\ Ask("mirror",
           IF sanitize(input)
           THEN [Request("input", <<"turn">>) EXCEPT !.input = input, !.turns = sim.turns \union {Len(book) + 1},
                                                     !.tactics = sim.tactics \union input.tactics]
           ELSE [Request("abort", <<"abort", "abortLog", "pause", "linkAbort">>) EXCEPT !.input = input])

endMirror(taught) ==
    /\ requireActiveSession
    /\ Ask("mirror", Request(IF taught THEN "learn" ELSE "abandon",
                             <<"finish", "finishLog">> \o (IF taught THEN <<"graph">> ELSE <<>>) \o <<"linkEnd">>))

MirrorWrite(i) ==
    /\ Does(i, "mirror", {"turn", "abort", "pause", "linkAbort", "finish", "graph", "linkEnd"})
    /\ LET r == book[i]  step == Head(r.todo)
       IN  /\ sim' = CASE step = "turn" -> [sim EXCEPT !.turns = r.turns, !.tactics = r.tactics]
                       [] step = "abort" -> [sim EXCEPT !.status = "ABORTED_REAL_CREDS"]
                       [] step = "finish" -> [sim EXCEPT !.status = IF r.op = "learn" THEN "ENDED_LEARNED"
                                                                                      ELSE "ENDED_ABANDONED"]
                       [] step = "linkAbort" -> [sim EXCEPT !.pause = TRUE, !.evidence = r.op]
                       [] step = "linkEnd" -> [sim EXCEPT !.evidence = r.op]
                       [] OTHER -> sim
           \* the tactics the update of the status returned; a failure is only logged
           /\ learned' \in (IF step = "graph" THEN {learned, learned \union r.tactics} ELSE {learned})
           /\ book' = [book EXCEPT ![i].todo = Tail(@), ![i].made = @ \union {step},
                                   ![i].tactics = IF step = "finish" THEN sim.tactics ELSE @]
    /\ UNCHANGED <<area, session, fails, models, losses, clashed>>

----------------------------------------------------------------------------
(* Authenticity checks and the fusion.                                     *)

\* Without media the verdict is INCONCLUSIVE and no model decided anything.
runCheck(media, result) ==
    Ask("checks", [Request("check", IF media THEN <<"verdict", "decision", "checkLog">>
                                             ELSE <<"inconclusive", "checkLog">>)
                     EXCEPT !.status = IF media THEN result ELSE "INCONCLUSIVE"])

fuse == Ask("checks", [Request("fuse", <<"journey", "journeyDecision", "victim", "victimDecision",
                                         "move", "moveDecision", "count", "fusion">>) EXCEPT !.before = fails])

CheckWrite(i) ==
    /\ Does(i, "checks", {"verdict", "count"})
    /\ fails' = IF book[i].status = "FAIL" THEN fails + 1 ELSE fails
    /\ book' = [book EXCEPT ![i].todo = Tail(@), ![i].made = @ \union {Head(book[i].todo)}, ![i].counted = fails]
    /\ UNCHANGED <<area, session, sim, learned, models, losses, clashed>>

----------------------------------------------------------------------------
(* The model registry.                                                     *)

\* An upsert with whatever status the caller gives.
register(v, status) ==
    /\ area = "models"
    /\ Len(book) < BookBound
    /\ models' = [models EXCEPT ![v] = status]
    /\ book' = Append(book, [Request("register", <<>>) EXCEPT !.version = v, !.status = status])
    /\ UNCHANGED <<area, session, sim, learned, fails, losses, clashed>>

setStatus(v, status) ==
    /\ models[v] # "none"
    /\ Ask("models", [Request("setStatus", (IF status = "ACTIVE" THEN <<"retire">> ELSE <<>>) \o <<"set">>)
                        EXCEPT !.version = v, !.status = status])

ModelWrite(i) ==
    /\ Does(i, "models", {"retire", "set"})
    /\ models' = IF Head(book[i].todo) = "set" THEN [models EXCEPT ![book[i].version] = book[i].status]
                 ELSE [v \in Versions |-> IF v # book[i].version /\ models[v] = "ACTIVE" THEN "RETIRED" ELSE models[v]]
    /\ Note(i, Head(book[i].todo))
    /\ UNCHANGED <<area, session, sim, learned, fails, losses, clashed>>

----------------------------------------------------------------------------
PipelineNext ==
    \/ start \/ recordEvent \/ end \/ trigger
    \/ \E seen \in Telemetry : ingestTelemetry(seen)
    \/ \E text \in Phrases : analyze(text)
    \/ startMirror \/ fuse
    \/ \E input \in Inputs : recordInput(input)
    \/ \E taught \in BOOLEAN : endMirror(taught)
    \/ \E media \in BOOLEAN, result \in {"PASS", "FAIL"} : runCheck(media, result)
    \/ \E v \in Versions, status \in {"DRAFT", "ACTIVE", "RETIRED"} : register(v, status) \/ setStatus(v, status)
    \/ \E i \in DOMAIN book :
          Record(i) \/ Perish(i) \/ SessionWrite(i) \/ MirrorWrite(i) \/ CheckWrite(i) \/ ModelWrite(i)

PipelineSpec == PipelineInit /\ [][PipelineNext]_pipeVars

PipelineTypeOK ==
    /\ session.status \in {"none", "ACTIVE", "FLAGGED", "ENDED"}
    /\ sim.status \in {"none", "ACTIVE", "ABORTED_REAL_CREDS", "ENDED_LEARNED", "ENDED_ABANDONED"}
    /\ sim.turns \subseteq 1..BookBound /\ learned \subseteq UNION {i.tactics : i \in Inputs}
    /\ fails \in 0..BookBound /\ Len(book) <= BookBound /\ losses \in 0..LossesBound

Made(name) == {i \in DOMAIN book : name \in book[i].made}
Finished(i) == book[i].todo = <<>>

\* A critical event is never half handled: INTERVENING means that the freeze, its
\* entry and both alerts are there, and a request that was not lost got there;
\* once flagged a session is never simply active again; and it ends once, but for
\* ends that overlap and for a flag that took it out of ENDED.
InterventionComplete ==
    /\ \A i \in Made("intervening") : {"riskEvent", "riskLog", "riskAlert", "freeze", "freezeLog", "pauseAlert"}
                                         \subseteq book[i].made
    /\ \A i \in DOMAIN book : book[i].level = "CRITICAL" /\ Finished(i) => i \in Made("intervening")
    /\ Made("flag") # {} => session.status \in {"FLAGGED", "ENDED"}
    /\ session.status = "ENDED" => session.endedAt
    /\ Made("end") # {} => session.endedAt
    /\ Cardinality(Made("end")) <= 1 + Cardinality(Made("flag")) \/ "end" \in clashed

\* A simulation keeps what it accepted and nothing it refused.  Once left, ACTIVE
\* does not come back; a turn, a tactic the graph learnt or an ending is only
\* overwritten by a request that overlapped; an abort that went through has its pause.
SimulationKept ==
    /\ \A i \in sim.turns : sanitize(book[i].input) /\ i \in Made("turn")
    /\ sim.status = "ACTIVE" => Made("abort") \union Made("finish") = {}
    /\ clashed = {} => sim.turns = Made("turn") /\ learned \subseteq sim.tactics
    /\ clashed = {} => Cardinality(Made("abort") \union Made("finish")) <= 1
    /\ Made("linkAbort") # {} => sim.pause /\ Made("pause") # {}

\* A fusion counts the failed checks there were when it was asked for, and none
\* that came after it; each of its three judgements, and every verdict of a check
\* that had media, is on record as an AI decision unless the request was lost.
FusionCounts ==
    /\ \A i \in Made("fusion") : book[i].before <= book[i].counted /\ book[i].counted <= fails
    /\ \A i \in Made("fusion") : {"journeyDecision", "victimDecision", "moveDecision"} \subseteq book[i].made
    /\ \A i \in Made("verdict") : Finished(i) => i \in Made("decision")

\* One active model per service, but for one registered as ACTIVE and for
\* activations that overlap.
ModelsGoverned ==
    \/ Cardinality({v \in Versions : models[v] = "ACTIVE"}) <= 1
    \/ "setStatus" \in clashed
    \/ \E i \in DOMAIN book : book[i].op = "register" /\ book[i].status = "ACTIVE"

\* What the requests on a device leave behind, whatever interleaves or is lost.
PipelineSound == InterventionComplete /\ SimulationKept /\ FusionCounts /\ ModelsGoverned

=============================================================================
