------------------------------ MODULE Reports -------------------------------
(***************************************************************************)
(* One report on a target: requested by the bot (apps/bot/handlers/        *)
(* report.py) and generated by a job, or generated in the request of the   *)
(* API (apps/api/routers/reports.py); generate_report (reports/service.py) *)
(* with the sections of reports/builder.py that cite evidence; downloads.  *)
(*                                                                         *)
(* The row is written by one transaction that commits at the end, the      *)
(* files on the way.  A job may be delivered again after its handler has   *)
(* committed (JobRunner), even while another worker runs it.  Each SELECT  *)
(* of the builder sees what is committed when it runs.                     *)
(***************************************************************************)
EXTENDS Naturals, Sequences, FiniteSets

CONSTANTS Generators,    \* sessions that generate the report
          EvidenceCap,   \* _EVIDENCE_CAP
          MaxRefs,       \* evidence ids one claim cites
          MaxEvidence,   \* bound: evidence rows of one account
          MaxTries       \* bound: times the report is generated

ASSUME ReportsAssumption == /\ EvidenceCap \in Nat \ {0} /\ MaxRefs \in 1..EvidenceCap
                            /\ MaxEvidence \in Nat /\ MaxTries \in Nat

(* html is written and served like json, from content_json if need be.     *)
Formats == {"json", "pdf"}

(* The resolved entities: a Telegram account and an external one.  Their   *)
(* evidence is numbered as it was collected.                               *)
Resolution == {"telegram", "external"}

Ev == Resolution \X (1..MaxEvidence)

(* What of a report's content matters here: the evidence its claims cite,  *)
(* the evidence section, and whether all evidence there was fitted in it.  *)
Content == [cited : SUBSET Ev, listed : SUBSET Ev, whole : BOOLEAN]

Empty == [cited |-> {}, listed |-> {}, whole |-> TRUE]

NoFile == [cited |-> {}, listed |-> {}, whole |-> FALSE]

VARIABLES
    collected,   \* per entity: evidence rows committed
    hasTarget,   \* the report's target_id leads to a row
    report,      \* the committed report row
    submitted,   \* its job has been enqueued
    disk,        \* per format: the content of the file
    gen,         \* per session: where it is, and what it has built
    tries,       \* times the report has been generated or tried
    torn         \* history: since the last attempt that ran alone, one was lost or overlapped

reportVars == <<collected, hasTarget, report, submitted, disk, gen, tries, torn>>

NoReportRow == [status |-> "none", content |-> NoFile, artifacts |-> {}]

(* alone: history, no other session has overlapped with this attempt.      *)
IdleGen == [at |-> "idle", built |-> Empty, wrote |-> {}, alone |-> TRUE]

(* Types; in particular only a completed report lists artifacts, and only  *)
(* a session that has built its content has written files.                 *)
ReportsTypeOK ==
    /\ collected \in [Resolution -> 0..MaxEvidence]
    /\ hasTarget \in BOOLEAN /\ submitted \in BOOLEAN /\ torn \in BOOLEAN
    /\ report.status \in {"none", "PENDING", "COMPLETED", "FAILED"}
    /\ report.content \in Content \cup {NoFile}
    /\ report.artifacts # {} => report.status = "COMPLETED"
    /\ disk \in [Formats -> Content \cup {NoFile}]
    /\ \A g \in Generators : /\ gen[g].at \in {"idle", "cite", "list", "write", "failed"}
                             /\ gen[g].built \in Content
                             /\ gen[g].wrote # {} => gen[g].at = "write"
    /\ tries \in 0..MaxTries

ReportsInit ==
    /\ collected = [e \in Resolution |-> 0]
    /\ hasTarget \in BOOLEAN
    /\ report = NoReportRow
    /\ submitted = FALSE
    /\ disk = [f \in Formats |-> NoFile]
    /\ gen = [g \in Generators |-> IdleGen]
    /\ tries = 0
    /\ torn = FALSE

(* Meanwhile collectors commit evidence.                                   *)
Collect(e) == /\ collected[e] < MaxEvidence
              /\ collected' = [collected EXCEPT ![e] = @ + 1]
              /\ UNCHANGED <<hasTarget, report, submitted, disk, gen, tries, torn>>

(* report_cmd commits the row, then submits the job; it may die between.   *)
RequestReport == /\ report.status = "none" /\ tries = 0
                 /\ report' = [report EXCEPT !.status = "PENDING"]
                 /\ UNCHANGED <<collected, hasTarget, submitted, disk, gen, tries, torn>>

SubmitReport == /\ report.status = "PENDING" /\ ~submitted /\ tries = 0
                /\ submitted' = TRUE
                /\ UNCHANGED <<collected, hasTarget, report, disk, gen, tries, torn>>

Busy == {g \in Generators : gen[g].at # "idle"}

AtStep(g, p) == gen[g].at = p

(* generate_report begins, in the job or in the API's request, which has   *)
(* just flushed its own row and always has a target.                       *)
Generate(g) ==
    /\ AtStep(g, "idle") /\ tries < MaxTries
    /\ submitted \/ (report.status = "none" /\ tries = 0 /\ hasTarget)
    /\ gen' = [q \in Generators |->
                 IF q = g THEN [IdleGen EXCEPT !.at = IF hasTarget THEN "cite" ELSE "failed",
                                               !.alone = Busy = {}]
                 ELSE [gen[q] EXCEPT !.alone = q \notin Busy]]
    /\ tries' = tries + 1
    /\ UNCHANGED <<collected, hasTarget, report, submitted, disk, torn>>

(* for_entity: the newest first.                                           *)
Newest(e, n) == {<<e, k>> : k \in {i \in 1..collected[e] : i + n > collected[e]}}

(* _telegram_presence cites the latest value of a field, if there is one,  *)
(* whenever it was collected.                                              *)
PresenceRefs == {{}} \cup {{<<"telegram", k>>} : k \in 1..collected["telegram"]}

(* _username_intelligence cites the newest rows of an account.             *)
IntelligenceRefs == Newest("external", MaxRefs)

(* build, up to the evidence section; the other sections cite nothing.     *)
Cite(g) ==
    /\ AtStep(g, "cite")
    /\ \E refs \in PresenceRefs :
          gen' = [gen EXCEPT ![g].at = "list",
                             ![g].built.cited = refs \cup IntelligenceRefs]
    /\ UNCHANGED <<collected, hasTarget, report, submitted, disk, tries, torn>>

Total == collected["telegram"] + collected["external"]

(* Mutant: the rows of one entity are read with for_entity's own, lower    *)
(* limit.                                                                  *)
SectionDefaultLimit(first, second) ==
    Newest(first, EvidenceCap - 1) \cup Newest(second, EvidenceCap - 1)

(* _evidence: the rows of the resolved entities, in whatever order these   *)
(* come, up to the cap.                                                    *)
Section(first, second) ==
    LET room == EvidenceCap - Cardinality(Newest(first, EvidenceCap))
    IN  Newest(first, EvidenceCap) \cup Newest(second, room)

ListEvidence(g) ==
    /\ AtStep(g, "list")
    /\ \E e \in Resolution :
          gen' = [gen EXCEPT ![g].at = "write",
                             ![g].built.listed = Section(e, CHOOSE f \in Resolution : f # e),
                             ![g].built.whole = Total <= EvidenceCap]
    /\ UNCHANGED <<collected, hasTarget, report, submitted, disk, tries, torn>>

(* Mutant: a file an earlier attempt left is not written again.            *)
FileAfterOnce(g, f) == IF disk[f] # NoFile THEN disk[f] ELSE gen[g].built

FileAfter(g, f) == gen[g].built

WriteArtifact(g, f) ==
    /\ AtStep(g, "write") /\ f \notin gen[g].wrote
    /\ f = "pdf" => "json" \in gen[g].wrote
    /\ disk' = [disk EXCEPT ![f] = FileAfter(g, f)]
    /\ gen' = [gen EXCEPT ![g].wrote = @ \cup {f}]
    /\ UNCHANGED <<collected, hasTarget, report, submitted, tries, torn>>

Leave(g) == gen' = [gen EXCEPT ![g] = IdleGen]

(* The transaction commits: content_json, artifacts_json and COMPLETED, or *)
(* FAILED for want of a target.                                            *)
CommitReport(g) ==
    /\ \/ /\ AtStep(g, "write") /\ gen[g].wrote = Formats
          /\ report' = [status |-> "COMPLETED", content |-> gen[g].built, artifacts |-> Formats]
       \/ /\ AtStep(g, "failed")
          /\ report' = [report EXCEPT !.status = "FAILED"]
    /\ Leave(g)
    /\ torn' = ~gen[g].alone
    /\ UNCHANGED <<collected, hasTarget, submitted, disk, tries>>

(* A query, a renderer or a write raises, or the process dies: the row is  *)
(* rolled back, the files stay.                                            *)
LoseReport(g) ==
    /\ ~AtStep(g, "idle")
    /\ Leave(g)
    /\ torn' = (torn \/ gen[g].wrote # {})
    /\ UNCHANGED <<collected, hasTarget, report, submitted, disk, tries>>

(* download_report: the file the row lists, else content_json.             *)
Served(f) == IF f \in report.artifacts /\ disk[f] # NoFile THEN disk[f] ELSE report.content

ReportsNext ==
    \/ RequestReport \/ SubmitReport
    \/ \E e \in Resolution : Collect(e)
    \/ \E g \in Generators :
          \/ Generate(g) \/ Cite(g) \/ ListEvidence(g) \/ CommitReport(g) \/ LoseReport(g)
          \/ \E f \in Formats : WriteArtifact(g, f)
-----------------------------------------------------------------------------
(* Properties.                                                             *)

(* Every format of a completed report is on disk, and, unless another      *)
(* attempt overlapped or was lost since it began to write, a download      *)
(* returns what the row holds, however many attempts failed before: files  *)
(* are written before the row commits (service.py:62-82).                  *)
DownloadsAgree ==
    report.status = "COMPLETED" =>
        \A f \in Formats : /\ disk[f] # NoFile
                           /\ torn \/ Busy # {} \/ Served(f) = report.content

(* What a claim cites is in the evidence section, as long as all evidence  *)
(* fits in it: the section is read after the claims were made, while       *)
(* collectors commit (builder.py:550 "All findings are supported by the    *)
(* evidence in section 12").                                               *)
CitedIsListed ==
    report.content.whole => report.content.cited \subseteq report.content.listed

(* A completed report is one piece: its files hold what its row does, and  *)
(* its sections what its claims cite (generate_report, ReportBuilder).     *)
ReportWhole == DownloadsAgree /\ CitedIsListed
=============================================================================
