------------------------------ MODULE BotQuota ------------------------------
(***************************************************************************)
(* The bot's entry path for Telegram users: the authorized decorator       *)
(* (apps/bot/guard.py), the free-action quota of the public tier           *)
(* (apps/bot/quota.py), referrals (/start), and the two-message form of    *)
(* /investigate (apps/bot/handlers/investigate.py).                        *)
(*                                                                         *)
(* The bot handles one update at a time, so an update is one step; what    *)
(* may differ from one to the next (the rate limiter's verdict, whether    *)
(* the queue accepts the job) is a choice.  A job that the queue refuses   *)
(* is not a collection.                                                    *)
(***************************************************************************)
EXTENDS Naturals, FiniteSets

CONSTANTS Users,          \* Telegram ids
          AllowListed,    \* TELEGRAM_ALLOWED_USER_IDS and TELEGRAM_ADMIN_USER_IDS
          PublicBot,      \* PUBLIC_BOT_ENABLED
          FreeActions,    \* FREE_OSINT_ACTIONS
          Unlock,         \* REFERRAL_UNLOCK_COUNT
          None,           \* no inviter
          MaxTargets      \* bound: targets a user names

ASSUME QuotaAssumption == /\ IsFiniteSet(Users)
                          /\ AllowListed \subseteq Users
                          /\ PublicBot \in BOOLEAN
                          /\ FreeActions \in Nat
                          /\ Unlock \in Nat
                          /\ None \notin Users

VARIABLES
    known,        \* users with a row in the user table
    used,         \* free_actions_used
    inviter,      \* invited_by_telegram_id
    awaiting,     \* users whose next text is a target (user_data, in memory)
    collected,    \* history: collections queued for a user
    targets       \* history: updates in which a user named something to collect

quotaVars == <<known, used, inviter, awaiting, collected, targets>>

(* Types; in particular free_actions_used never exceeds the free limit,    *)
(* and a user without a row has neither usage nor inviter (quota.py).      *)
QuotaTypeOK ==
    /\ known \subseteq Users
    /\ used \in [Users -> 0..FreeActions]
    /\ inviter \in [Users -> Users \cup {None}]
    /\ awaiting \subseteq Users
    /\ collected \in [Users -> Nat]
    /\ targets \in [Users -> Nat]
    /\ \A u \in Users \ known : used[u] = 0 /\ inviter[u] = None

QuotaInit ==
    /\ known = {}
    /\ used = [u \in Users |-> 0]
    /\ inviter = [u \in Users |-> None]
    /\ awaiting = {}
    /\ collected = [u \in Users |-> 0]
    /\ targets = [u \in Users |-> 0]

Public(u) == u \notin AllowListed

Authorized(u) == u \in AllowListed \/ PublicBot

(* Mutant: only those who have free actions left count.                    *)
ReferralsWithCredit(u) ==
    Cardinality({v \in Users : inviter[v] = u /\ used[v] < FreeActions})

Referrals(u) == Cardinality({v \in Users : inviter[v] = u})

Unlocked(u) == Referrals(u) >= Unlock

Register(u) == known' = known \cup {u}

(* The guard alone creates rows for the public tier only.                  *)
Met(u) == known' = IF Public(u) THEN known \cup {u} ELSE known

(* Mutant: one free action too many.                                       *)
MayActInclusive(u) == Public(u) => Unlocked(u) \/ used[u] <= FreeActions

(* The quota's verdict, and what a free action costs.                      *)
MayAct(u) == Public(u) => Unlocked(u) \/ used[u] < FreeActions

(* Mutant: the action is not counted.                                      *)
ChargeNothing(u) == used' = used

Charge(u) ==
    used' = IF Public(u) /\ ~Unlocked(u) THEN [used EXCEPT ![u] = @ + 1] ELSE used

(* Over the free limit the row is created and nothing else happens.        *)
Blocked(u) == /\ ~MayAct(u)
              /\ Register(u)
              /\ UNCHANGED <<used, inviter, collected, targets>>

(* submit_job at the end of a handler: the queue may refuse it.            *)
Submit(u) == collected' \in {collected, [collected EXCEPT ![u] = @ + 1]}

NamesTarget(u) == targets[u] < MaxTargets /\ targets' = [targets EXCEPT ![u] = @ + 1]

RecordReferral(u, r) ==
    inviter' = IF Public(u) /\ u \notin known /\ r # u
               THEN [inviter EXCEPT ![u] = r] ELSE inviter

(* /start, possibly with a referral link; only the public tier's handler   *)
(* touches the user table.                                                 *)
Start(u, r) == /\ Authorized(u)
               /\ RecordReferral(u, r)
               /\ Met(u)
               /\ UNCHANGED <<used, awaiting, collected, targets>>

(* /search, /user, /group, /channel, /username, /report with a target.     *)
Collect(u) ==
    /\ Authorized(u)
    /\ UNCHANGED awaiting
    /\ \/ Blocked(u)
       \/ /\ MayAct(u)
          /\ Register(u)
          /\ Charge(u)
          /\ Submit(u)
          /\ NamesTarget(u)
          /\ UNCHANGED inviter

(* The same commands without one: the guard has charged before the handler *)
(* answers with its usage.                                                 *)
Usage(u) ==
    /\ Authorized(u)
    /\ Public(u)
    /\ UNCHANGED awaiting
    /\ \/ Blocked(u)
       \/ /\ MayAct(u)
          /\ Register(u)
          /\ Charge(u)
          /\ UNCHANGED <<inviter, collected, targets>>

(* /watch, /unwatch, /watchlist, /history, /message: no quota.             *)
Other(u) == /\ Authorized(u)
            /\ Register(u)
            /\ UNCHANGED <<used, inviter, awaiting, collected, targets>>

(* parse_target rejects some texts after the charge; the others become an  *)
(* investigation and a job.                                                *)
StartInvestigation(u) ==
    /\ NamesTarget(u)
    /\ \/ Met(u) /\ UNCHANGED collected
       \/ Register(u) /\ Submit(u)

(* /investigate with a target in the command.                              *)
Investigate(u) ==
    /\ Authorized(u)
    /\ UNCHANGED awaiting
    /\ \/ Blocked(u)
       \/ /\ MayAct(u)
          /\ Charge(u)
          /\ StartInvestigation(u)
          /\ UNCHANGED inviter

(* A bare /investigate: the guard charges, then the handler asks for the   *)
(* target.                                                                 *)
AskTarget(u) ==
    /\ Authorized(u)
    /\ \/ Blocked(u) /\ UNCHANGED awaiting
       \/ /\ MayAct(u)
          /\ Met(u)
          /\ Charge(u)
          /\ awaiting' = awaiting \cup {u}
          /\ UNCHANGED <<inviter, collected, targets>>

(* The next plain text: handle_target_text takes the flag back, checks the *)
(* quota itself and starts the investigation.                              *)
TargetText(u) ==
    /\ u \in awaiting
    /\ awaiting' = awaiting \ {u}
    /\ \/ UNCHANGED <<known, used, inviter, collected, targets>>   \* a blank text
       \/ Blocked(u)
       \/ /\ MayAct(u)
          /\ Charge(u)
          /\ StartInvestigation(u)
          /\ UNCHANGED inviter

(* user_data is not persisted.                                             *)
Restart == /\ awaiting # {}
           /\ awaiting' = {}
           /\ UNCHANGED <<known, used, inviter, collected, targets>>

QuotaNext ==
    \/ \E u \in Users :
          \/ \E r \in Users \cup {None} : Start(u, r)
          \/ Collect(u)
          \/ Usage(u)
          \/ Other(u)
          \/ Investigate(u)
          \/ AskTarget(u)
          \/ TargetText(u)
    \/ Restart

QuotaSpec == QuotaInit /\ [][QuotaNext]_quotaVars

(***************************************************************************)
(* Properties                                                              *)
(***************************************************************************)

(* Whatever mixture of commands, prompts and restarts a public user goes   *)
(* through, no more than FreeActions collections are queued for him until  *)
(* enough people have followed his link (apps/bot/quota.py).               *)
FreeCap == \A u \in Users : Public(u) => collected[u] <= FreeActions \/ Unlocked(u)

(* A user who is unlocked stays unlocked: the live count of referrals      *)
(* never goes down (apps/bot/quota.py:9).                                  *)
UnlockIsPermanent == [][\A u \in Users : Unlocked(u) => Unlocked(u)']_quotaVars
=============================================================================
