----------------------------- MODULE Footprint ------------------------------
(***************************************************************************)
(* What one investigation finds and reports: InvestigationService.run      *)
(* (intelligence/investigation/service.py) with the classifier, the rows   *)
(* of InvestigationRepository and build_investigation_content              *)
(* (reports/investigation_report.py).                                      *)
(*                                                                         *)
(* An attempt is one transaction with three awaits; it may raise at any of *)
(* them and be retried, and the sources may then answer otherwise.  The    *)
(* job around the attempts is in Investigations.                           *)
(***************************************************************************)
EXTENDS Naturals, FiniteSets, Sequences

Sets == INSTANCE FiniteSetsExt

CONSTANTS Posts,        \* messages a search may return
          AliasSites,   \* platforms of username OSINT
          AliasScores,  \* confidences it may give an alias
          MaxPosts,     \* bound: messages one search returns (limit=50)
          MaxAttempts,  \* bound: attempts
          NoChat,       \* the message names no chat
          NoScore       \* confidence is None

(* by: whether the author field the classifier compares is the target's;   *)
(* text: what of the target it holds; url: it has a link; dated: it has a  *)
(* post time.                                                              *)
PostRows(Chats) == [chat : Chats, id : Nat, by : {"target", "other"}, reply : BOOLEAN,
                    text : SUBSET {"mention", "name", "indicator"}, url : BOOLEAN,
                    dated : BOOLEAN]

ASSUME FootprintAssumption ==
    /\ \A p \in Posts : p \in PostRows({p.chat}) /\ (p.chat = NoChat => ~p.url)
    /\ AliasScores \subseteq 0..100
    /\ MaxPosts \in Nat /\ MaxAttempts \in Nat
    /\ NoScore \notin Nat

VARIABLES
    attempt,   \* the attempt in progress
    observed,  \* committed observation rows
    dossier    \* committed summary_json, confidence and content_json

footVars == <<attempt, observed, dossier>>

ObservationKinds == {"AUTHOR", "MENTION", "REPLY", "REFERENCE", "UNKNOWN"}

NoDossier == [made |-> FALSE]

(* A number for each attempt makes the ids of its rows new.                *)
NewAttempt(n, at) ==
    [number |-> n, at |-> at, target |-> "username", operator |-> FALSE, source |-> TRUE,
     profile |-> FALSE, found |-> <<>>, rows |-> {}, aliases |-> <<>>, dossier |-> NoDossier]

FootInit == /\ attempt = NewAttempt(0, "idle")
            /\ observed = {}
            /\ dossier = NoDossier

(***************************************************************************)
(* One message                                                             *)
(***************************************************************************)
Mentions(p) == "mention" \in p.text

(* A user name is looked for in the author, then as a mention, then as a   *)
(* word; an id only in the author and as digits of the text.               *)
Classify(target, p) ==
    IF target = "username"
    THEN CASE p.by = "target" -> <<"AUTHOR", 92>>
           [] p.by # "target" /\ p.reply /\ Mentions(p) -> <<"REPLY", 70>>
           [] p.by # "target" /\ ~p.reply /\ Mentions(p) -> <<"MENTION", 80>>
           [] p.by # "target" /\ ~Mentions(p) /\ "name" \in p.text -> <<"REFERENCE", 55>>
           [] OTHER -> <<"UNKNOWN", 30>>
    ELSE CASE p.by = "target" -> <<"AUTHOR", 92>>
           [] p.by # "target" /\ "name" \in p.text -> <<"REFERENCE", 45>>
           [] OTHER -> <<"UNKNOWN", 25>>

(* The chat as its link names it, else the collector's own label for it.   *)
Resource(p) == CASE p.url -> <<"handle", p.chat>>
                 [] ~p.url /\ p.chat # NoChat -> <<"label", p.chat>>
                 [] OTHER -> <<"unknown", NoChat>>

(* Collector.validate: of two messages with one key the first stays; all   *)
(* messages that name no chat share one.                                   *)
Validated(found) == {i \in DOMAIN found :
                       \A j \in 1..(i - 1) : ~(/\ found[j].chat = found[i].chat
                                               /\ found[j].id = found[i].id)}

AddObservation(n, i, target, p) ==
    [id |-> <<n, i>>, type |-> Classify(target, p)[1], confidence |-> Classify(target, p)[2],
     resource |-> Resource(p), dated |-> p.dated, indicator |-> "indicator" \in p.text]

BuildObservations(n, target, found) ==
    {AddObservation(n, i, target, found[i]) : i \in Validated(found)}

(* The rows of the investigation, those of this transaction included.      *)
Read(stored, n, target, found) == stored \cup BuildObservations(n, target, found)

(***************************************************************************)
(* The summary                                                             *)
(***************************************************************************)
OfType(rows, t) == {r \in rows : r.type = t}

(* Each indicator once; one is enough to tell the cases apart.             *)
Indicators(rows) == {r.indicator : r \in rows} \ {FALSE}

Count(rows, aliases) ==
    [observations |-> Cardinality(rows),
     of |-> [t \in ObservationKinds |-> Cardinality(OfType(rows, t))],
     resources |-> Cardinality({r.resource : r \in rows}),
     aliases |-> Cardinality(DOMAIN aliases),
     iocs |-> Cardinality(Indicators(rows))]

(* A search result: which platforms have the name, and how likely.         *)
Scores(aliases) == {aliases[s] : s \in DOMAIN aliases}

Best(aliases) == IF Scores(aliases) = {} THEN NoScore ELSE Sets!Max(Scores(aliases))

(* Mutant: a mention counts like the rest.                                 *)
OverallUncapped(rows, alias, source) ==
    LET signals == {r.confidence : r \in rows} \cup ({alias} \ {NoScore})
    IN  IF signals = {} THEN (IF source THEN 0 ELSE NoScore) ELSE Sets!Min({95, Sets!Max(signals)})

OverallConfidence(rows, alias, source) ==
    LET mentions == {r.confidence : r \in OfType(rows, "MENTION")}
        signals == {r.confidence : r \in OfType(rows, "AUTHOR") \cup OfType(rows, "REPLY")}
                   \cup ({alias} \ {NoScore})
                   \cup (IF mentions = {} THEN {} ELSE {Sets!Min({60, Sets!Max(mentions)})})
    IN  IF ~source /\ alias = NoScore THEN NoScore
        ELSE IF signals # {} THEN Sets!Min({95, Sets!Max(signals)})
        ELSE IF rows # {} THEN 20 ELSE 0

Narrative(counts, source, operator) ==
    CASE ~source -> "NO SOURCE"
      [] source /\ counts.observations = 0 /\ ~operator -> "NOT OBSERVABLE"
      [] OTHER -> "COUNTS"

(***************************************************************************)
(* The sections of the report, from the rows as they are read back and     *)
(* from summary_json                                                       *)
(***************************************************************************)
ProfileSection(profile) == IF profile THEN "FACT" ELSE "UNKNOWN"

ResourceSection(rows) ==
    [s \in {r.resource : r \in rows} |-> Cardinality({r \in rows : r.resource = s})]

MessageSections(rows, counts) ==
    [authored |-> OfType(rows, "AUTHOR"), all |-> rows,
     mentions |-> OfType(rows, "MENTION"), mentionsClaimed |-> counts.of["MENTION"],
     replies |-> OfType(rows, "REPLY"), repliesClaimed |-> counts.of["REPLY"]]

TimelineSection(rows) == {r \in rows : r.dated}

EntitySections(aliases, counts) == [aliases |-> aliases, iocs |-> counts.iocs]

EvidenceSection(rows) == rows

ConfidenceSection(confidence) == IF confidence = NoScore THEN "NOT OBSERVABLE" ELSE "SCORE"

InvestigationContent(rows, counts, profile, aliases, confidence, narrative) ==
    [summary |-> [counts |-> counts, confidence |-> confidence, narrative |-> narrative],
     profile |-> ProfileSection(profile),
     resources |-> ResourceSection(rows),
     messages |-> MessageSections(rows, counts),
     events |-> TimelineSection(rows),
     entities |-> EntitySections(aliases, counts),
     evidence |-> EvidenceSection(rows),
     confidence |-> ConfidenceSection(confidence)]

(***************************************************************************)
(* The attempt                                                             *)
(***************************************************************************)
BeginAttempt ==
    /\ attempt.at = "idle" /\ attempt.number < MaxAttempts
    /\ \E t \in {"username", "id"}, o \in BOOLEAN :
          attempt' = [NewAttempt(attempt.number + 1, "profile") EXCEPT
                        !.target = t, !.operator = o, !.rows = observed]
    /\ UNCHANGED <<observed, dossier>>

(* The collector says that it has no source, or whatever else.             *)
Profile == /\ attempt.at = "profile"
           /\ \E s, p \in BOOLEAN :
                 /\ p => s
                 /\ attempt' = [attempt EXCEPT !.source = s, !.profile = p,
                                               !.at = IF s THEN "search" ELSE "aliases"]
           /\ UNCHANGED <<observed, dossier>>

(* A search that fails returns no record, and its error is dropped.        *)
SearchPosts ==
    /\ attempt.at = "search"
    /\ \E k \in 0..MaxPosts : \E found \in [1..k -> Posts] :
          attempt' = [attempt EXCEPT !.found = found, !.at = "aliases",
                        !.rows = Read(@, attempt.number, attempt.target, found)]
    /\ UNCHANGED <<observed, dossier>>

Correlate == /\ attempt.at = "aliases"
             /\ \E S \in SUBSET AliasSites : \E a \in [S -> AliasScores] :
                   /\ attempt.target = "id" => S = {}
                   /\ attempt' = [attempt EXCEPT !.aliases = a, !.at = "report"]
             /\ UNCHANGED <<observed, dossier>>

(* The observations of this attempt make the summary; the report reads all *)
(* the investigation has.                                                  *)
Report ==
    /\ attempt.at = "report"
    /\ LET mine == BuildObservations(attempt.number, attempt.target, attempt.found)
           counts == Count(mine, attempt.aliases)
           confidence == OverallConfidence(mine, Best(attempt.aliases), attempt.source)
           narrative == Narrative(counts, attempt.source, attempt.operator)
       IN  attempt' = [attempt EXCEPT !.at = "commit", !.dossier =
                         [made |-> TRUE,
                          content |-> InvestigationContent(attempt.rows, counts, attempt.profile,
                                              attempt.aliases, confidence, narrative)]]
    /\ UNCHANGED <<observed, dossier>>

CommitAttempt == /\ attempt.at = "commit"
                 /\ observed' = attempt.rows
                 /\ dossier' = attempt.dossier
                 /\ attempt' = [attempt EXCEPT !.at = "done"]

(* Mutant: rows stay when the attempt raises.                              *)
RaiseKeepsRows == /\ attempt.at \in {"profile", "search", "aliases", "report", "commit"}
                  /\ observed' = attempt.rows
                  /\ attempt' = NewAttempt(attempt.number, "idle")
                  /\ UNCHANGED dossier

RaiseAttempt == /\ attempt.at \in {"profile", "search", "aliases", "report", "commit"}
                /\ attempt' = NewAttempt(attempt.number, "idle")
                /\ UNCHANGED <<observed, dossier>>

FootNext == BeginAttempt \/ Profile \/ SearchPosts \/ Correlate \/ Report \/ CommitAttempt
            \/ RaiseAttempt

(* Types; in particular confidences are percentages.                       *)
FootTypeOK == /\ attempt.number \in 0..MaxAttempts
              /\ attempt.found \in Seq(Posts)
              /\ \A r \in observed \cup attempt.rows : r.type \in ObservationKinds /\ r.confidence \in 0..100
              /\ dossier.made => dossier.content.summary.confidence \in (0..95) \cup {NoScore}
-----------------------------------------------------------------------------
(* Properties.                                                             *)

(* The report's numbers come from summary_json, its lists from the rows    *)
(* read back: however many attempts raised before, and whatever each of    *)
(* them found, they agree, every message the search returned is listed     *)
(* once and only those are (investigation_report.py:51-54).                *)
ReportAccounts ==
    dossier.made =>
        LET c == dossier.content
            n == c.summary.counts
        IN  /\ n.observations = Cardinality(c.evidence)
            /\ c.messages.mentionsClaimed = Cardinality(c.messages.mentions)
            /\ c.messages.repliesClaimed = Cardinality(c.messages.replies)
            /\ n.of["AUTHOR"] = Cardinality(c.messages.authored)
            /\ n.resources = Cardinality(DOMAIN c.resources)
            /\ \A s \in DOMAIN c.resources : c.resources[s] <= n.observations
            /\ {r.id[2] : r \in c.evidence} = Validated(attempt.found)
            /\ c.evidence = observed

(* An investigation is never more than 60 sure of its target on mentions   *)
(* and references alone: only a message the target wrote, a reply that     *)
(* names it or an alias takes it higher; and what was not observable is    *)
(* never shown as observed (service.py:8-11, 287-339).                     *)
OverallBacked ==
    dossier.made =>
        LET s == dossier.content.summary
        IN  /\ s.confidence = NoScore <=> ~attempt.source /\ Scores(attempt.aliases) = {}
            /\ s.confidence # NoScore /\ s.confidence > 60 =>
                  \/ \E a \in Scores(attempt.aliases) : a > 60
                  \/ \E i \in DOMAIN attempt.found :
                        LET p == attempt.found[i]
                        IN  p.by = "target" \/ (p.reply /\ Mentions(p))
            /\ s.narrative # "COUNTS" => dossier.content.evidence = {}
=============================================================================
