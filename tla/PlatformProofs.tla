--------------------------- MODULE PlatformProofs ---------------------------
(***************************************************************************)
(* Proofs about the parts of Platform: refresh tokens (TokensSafe), the    *)
(* dashboard's session (SessionSafe) and the schema (SchemaSafe), and      *)
(* about the bot's quota (FreeCap).  TLC has checked each inductive        *)
(* invariant on the instance of MCPlatform before it was proved.           *)
(***************************************************************************)
EXTENDS Platform, FiniteSetTheorems, SequenceTheorems, WellFoundedInduction, TLAPS

-----------------------------------------------------------------------------
(* Refresh tokens: the inductive invariants                                *)

\* The row a request has inserted and not committed.
Fresh(r) == new[r] \in Tokens /\ new[r] <= issued /\ status[new[r]] = "absent"

\* What a request has in hand, phase by phase.
RequestsFit ==
    \A r \in Requests :
        /\ pc[r] \notin {"idle", "issuing"} => tok[r] \in Tokens /\ tok[r] \in Committed
        /\ pc[r] \in {"issuing", "rotating"} => Fresh(r)
        /\ pc[r] \notin {"issuing", "rotating"} => new[r] = 0
        /\ pc[r] = "issuing" => parent[new[r]] = 0
        /\ pc[r] = "rotating" => parent[new[r]] = tok[r] /\ status[tok[r]] = "active"
        /\ todo[r] \subseteq Committed /\ done[r] \subseteq Committed

\* A row is inserted, and locked, by one request at a time.
RequestsApart ==
    \A q, r \in Requests : q # r =>
        /\ new[q] = new[r] => new[q] = 0
        /\ Holds(q) \cap Holds(r) = {}

\* The committed rows form chains: a row that has a successor is revoked, and it
\* has one successor; rows not yet inserted descend from nothing.
ChainsFit ==
    /\ \A t \in Tokens : t > issued => parent[t] = 0
    /\ \A c \in Committed : parent[c] # 0 => status[parent[c]] = "revoked"
    /\ \A c, d \in Committed : parent[c] = parent[d] /\ parent[c] # 0 => c = d
    /\ ReuseRevokes

\* A chain starts at a committed row, and one of its rows is live.
RootsFit ==
    /\ \A s \in Committed : Root[s] \in Committed
    /\ OneLiveTokenPerLogin
-----------------------------------------------------------------------------
(* The login a token descends from                                         *)

Less == {ss \in Nat \X Nat : ss[1] < ss[2]}

LEMMA LessIsWellFounded == IsWellFoundedOn(Less, Nat)
BY ONLY NatLessThanWellFounded, Zenon DEF OpToRel, Less

\* Induction by the smallest counterexample.
LEMMA LeastElement ==
    ASSUME NEW S \in SUBSET Nat, S # {}
    PROVE  \E x \in S : \A y \in S : x <= y
<1>1. PICK x \in S : \A y \in S : ~(<<y, x>> \in Less)
  BY LessIsWellFounded, WFMin
<1>2. \A y \in S : ~(y < x)
  BY <1>1 DEF Less
<1> QED
  BY <1>2

\* Whatever rows descend from older rows have a root.
LEMMA RootExists ==
    ASSUME NEW p \in [Tokens -> 0..MaxTokens], \A t \in Tokens : p[t] < t
    PROVE  \E f : f = [t \in Tokens |-> IF p[t] = 0 THEN t ELSE f[p[t]]]
<1> DEFINE Defined(n) == \E f : f = [t \in 1..n |-> IF p[t] = 0 THEN t ELSE f[p[t]]]
           Bad == {n \in 0..MaxTokens : ~Defined(n)}
<1>0. MaxTokens \in Nat
  BY TokensAssumption
<1>1. ASSUME NEW n \in Bad, \A m \in Bad : n <= m
      PROVE  FALSE
  <2>0. n \in 0..MaxTokens /\ ~Defined(n)
    BY <1>1
  <2>1. CASE n = 0
    <3> DEFINE e == [t \in 1..0 |-> 0]
    <3>1. e = [t \in 1..n |-> IF p[t] = 0 THEN t ELSE e[p[t]]]
      BY <2>1
    <3> QED
      BY <2>0, <3>1
  <2>2. CASE n # 0
    <3>1. n - 1 \in 0..MaxTokens /\ ~(n <= n - 1)
      BY <1>0, <2>0, <2>2
    <3>2. Defined(n - 1)
      BY <1>1, <3>1
    <3>3. PICK g : g = [t \in 1..(n - 1) |-> IF p[t] = 0 THEN t ELSE g[p[t]]]
      BY <3>2
    <3> DEFINE f == [t \in 1..n |-> IF t = n THEN (IF p[n] = 0 THEN n ELSE g[p[n]]) ELSE g[t]]
    <3>4. ASSUME NEW t \in 1..n
          PROVE  f[t] = IF p[t] = 0 THEN t ELSE f[p[t]]
      <4>1. t \in Tokens /\ p[t] \in Nat /\ p[t] < t
        BY <1>0, <2>0 DEF Tokens
      <4>2. p[t] # 0 => p[t] \in 1..n /\ p[t] # n /\ f[p[t]] = g[p[t]]
        BY <2>0, <4>1
      <4>3. CASE t = n
        BY <4>2, <4>3
      <4>4. CASE t # n
        <5>1. t \in 1..(n - 1)
          BY <2>0, <4>4
        <5>2. g[t] = IF p[t] = 0 THEN t ELSE g[p[t]]
          BY <3>3, <5>1
        <5> QED
          BY <4>2, <4>4, <5>2
      <4> QED
        BY <4>3, <4>4
    <3>5. f = [t \in 1..n |-> IF p[t] = 0 THEN t ELSE f[p[t]]]
      BY <3>4
    <3> QED
      BY <2>0, <3>5
  <2> QED
    BY <2>1, <2>2
<1>2. Bad = {}
  <2> SUFFICES ASSUME Bad # {} PROVE FALSE
    OBVIOUS
  <2>1. Bad \in SUBSET Nat
    BY <1>0
  <2> QED
    BY <1>1, <2>1, LeastElement
<1>3. Defined(MaxTokens)
  <2>1. MaxTokens \in 0..MaxTokens
    BY <1>0
  <2> QED
    BY <1>2, <2>1
<1> QED
  BY <1>3 DEF Tokens

LEMMA RootEquation ==
    ASSUME NEW p \in [Tokens -> 0..MaxTokens], \A t \in Tokens : p[t] < t
    PROVE  /\ p = parent => Root = [t \in Tokens |-> IF p[t] = 0 THEN t ELSE Root[p[t]]]
           /\ p = parent' => Root' = [t \in Tokens |-> IF p[t] = 0 THEN t ELSE Root'[p[t]]]
<1>1. ASSUME p = parent
      PROVE  Root = [t \in Tokens |-> IF p[t] = 0 THEN t ELSE Root[p[t]]]
  <2>1. \E f : f = [t \in Tokens |-> IF parent[t] = 0 THEN t ELSE f[parent[t]]]
    BY <1>1, RootExists
  <2>2. Root = [t \in Tokens |-> IF parent[t] = 0 THEN t ELSE Root[parent[t]]]
    BY <2>1, Zenon DEF Root
  <2> QED
    BY <1>1, <2>2, Zenon
<1>2. ASSUME p = parent'
      PROVE  Root' = [t \in Tokens |-> IF p[t] = 0 THEN t ELSE Root'[p[t]]]
  <2>1. \E f : f = [t \in Tokens |-> IF parent'[t] = 0 THEN t ELSE f[parent'[t]]]
    BY <1>2, RootExists
  <2>2. Root' = [t \in Tokens |-> IF parent'[t] = 0 THEN t ELSE Root'[parent'[t]]]
    BY <2>1, Zenon DEF Root
  <2> QED
    BY <1>2, <2>2, Zenon
<1> QED
  BY <1>1, <1>2

\* Inserting a row does not move the roots of the others.
LEMMA RootsStay ==
    ASSUME TypeOK, TypeOK', ChainsFit, NEW i \in Tokens, i > issued,
           \A t \in Tokens : t # i => parent'[t] = parent[t]
    PROVE  \A t \in Tokens : t # i => Root'[t] = Root[t]
<1>0. /\ parent \in [Tokens -> 0..MaxTokens] /\ parent' \in [Tokens -> 0..MaxTokens]
      /\ \A t \in Tokens : parent[t] < t /\ parent'[t] < t
      /\ MaxTokens \in Nat /\ issued \in Nat /\ Tokens = 1..MaxTokens
  BY TokensAssumption DEF TypeOK, Tokens
<1>1. Root = [t \in Tokens |-> IF parent[t] = 0 THEN t ELSE Root[parent[t]]]
  BY <1>0, RootEquation
<1>2. Root' = [t \in Tokens |-> IF parent'[t] = 0 THEN t ELSE Root'[parent'[t]]]
  BY <1>0, RootEquation
<1> DEFINE Moved == {t \in Tokens : t # i /\ Root'[t] # Root[t]}
<1>3. ASSUME NEW t \in Moved, \A s \in Moved : t <= s
      PROVE  FALSE
  <2>1. t \in Tokens /\ t # i /\ Root'[t] # Root[t] /\ parent'[t] = parent[t]
    BY <1>3
  <2>2. /\ Root[t] = IF parent[t] = 0 THEN t ELSE Root[parent[t]]
        /\ Root'[t] = IF parent[t] = 0 THEN t ELSE Root'[parent[t]]
    BY <1>1, <1>2, <2>1
  <2>3. parent[t] # 0 /\ parent[t] \in Tokens /\ parent[t] < t
    BY <1>0, <2>1, <2>2
  <2>4. t <= issued
    BY <1>0, <2>1, <2>3 DEF ChainsFit
  <2>5. parent[t] # i /\ ~(t <= parent[t])
    BY <1>0, <2>3, <2>4
  <2> QED
    BY <1>3, <2>1, <2>2, <2>3, <2>5
<1>4. Moved = {}
  <2> SUFFICES ASSUME Moved # {} PROVE FALSE
    OBVIOUS
  <2>1. Moved \in SUBSET Nat
    BY <1>0
  <2> QED
    BY <1>3, <2>1, LeastElement
<1> QED
  BY <1>4
-----------------------------------------------------------------------------
(* What the requests have in hand                                          *)

LEMMA TokensTyped ==
    ASSUME TypeOK, RequestsFit, [Next]_vars
    PROVE  TypeOK'
<1>0. MaxTokens \in Nat /\ Tokens = 1..MaxTokens /\ issued \in Nat
  BY TokensAssumption DEF Tokens, TypeOK
<1>1. CASE UNCHANGED vars
  BY <1>1 DEF vars, TypeOK
<1>2. ASSUME NEW r \in Requests, NEW t \in 0..MaxTokens, t <= issued, Issue(r, t),
             pc' \in [Requests -> Phases], UNCHANGED <<status, expired, tok, todo, done, covered>>
      PROVE  TypeOK'
  BY <1>0, <1>2 DEF Issue, TypeOK
<1>3. ASSUME NEW r \in Requests, Login(r)
      PROVE  TypeOK'
  <2>1. 0 \in 0..MaxTokens /\ 0 <= issued
    BY <1>0
  <2>2. pc' \in [Requests -> Phases]
    BY <1>3 DEF Login, TypeOK, Phases
  <2> QED
    BY <1>2, <1>3, <2>1, <2>2 DEF Login
<1>4. ASSUME NEW r \in Requests, Rotate(r)
      PROVE  TypeOK'
  <2>1. tok[r] \in 0..MaxTokens /\ tok[r] <= issued
    <3>1. tok[r] \in Tokens /\ status[tok[r]] # "absent"
      BY <1>4 DEF Rotate, RequestsFit, Committed
    <3> QED
      BY <1>0, <3>1 DEF TypeOK
  <2>2. pc' \in [Requests -> Phases]
    BY <1>4 DEF Rotate, TypeOK, Phases
  <2> QED
    BY <1>2, <1>4, <2>1, <2>2 DEF Rotate
<1>5. ASSUME NEW r \in Requests, Finish(r), UNCHANGED <<issued, expired, parent>>,
             status' \in [Tokens -> {"absent", "active", "revoked"}],
             \A t \in Tokens : status[t] = "absent" /\ status'[t] # "absent" => t <= issued,
             covered' \subseteq Tokens
      PROVE  TypeOK'
  BY <1>0, <1>5 DEF Finish, TypeOK, Phases
<1>6. ASSUME NEW r \in Requests, LoginCommit(r) \/ RotateCommit(r)
      PROVE  TypeOK'
  <2>1. new[r] \in Tokens /\ new[r] <= issued /\ (pc[r] = "rotating" => status[tok[r]] # "absent")
    BY <1>6 DEF LoginCommit, RotateCommit, RequestsFit, Fresh
  <2> QED
    BY <1>5, <1>6, <2>1 DEF LoginCommit, RotateCommit, TypeOK
<1>7. ASSUME NEW r \in Requests, RevokeCommit(r) \/ LogoutCommit(r)
      PROVE  TypeOK'
  <2>1. done[r] \subseteq Committed /\ done[r] \subseteq Tokens
    BY DEF RequestsFit, TypeOK
  <2>2. /\ status' \in [Tokens -> {"absent", "active", "revoked"}]
        /\ \A t \in Tokens : status[t] = "absent" /\ status'[t] # "absent" => t <= issued
    BY <1>7, <2>1 DEF RevokeCommit, LogoutCommit, Revocation, Committed, TypeOK
  <2>3. covered' \subseteq Tokens
    BY <1>7, <2>1 DEF RevokeCommit, LogoutCommit, TypeOK
  <2> QED
    BY <1>5, <1>7, <2>2, <2>3 DEF RevokeCommit, LogoutCommit
<1>8. ASSUME NEW r \in Requests, Abort(r)
      PROVE  TypeOK'
  BY <1>5, <1>8 DEF Abort, TypeOK
<1>9. ASSUME NEW r \in Requests, NEW t \in Tokens,
             Present(r, t) \/ LogoutRead(r, t) \/ RevokeRow(r, t)
      PROVE  TypeOK'
  <2>1. pc' \in [Requests -> Phases]
    BY <1>9 DEF Present, LogoutRead, RevokeRow, TypeOK, Phases
  <2>2. tok' \in [Requests -> 0..MaxTokens]
    BY <1>0, <1>9 DEF Present, LogoutRead, RevokeRow, TypeOK
  <2>3. todo' \in [Requests -> SUBSET Tokens] /\ done' \in [Requests -> SUBSET Tokens]
    BY <1>9 DEF Present, LogoutRead, RevokeRow, TypeOK
  <2> QED
    BY <1>9, <2>1, <2>2, <2>3 DEF Present, LogoutRead, RevokeRow, TypeOK
<1>11. ASSUME NEW r \in Requests, DetectReuse(r) \/ LogoutWrite(r)
       PROVE  TypeOK'
  <2>1. LogoutWrite(r) => tok[r] \in Tokens
    BY DEF LogoutWrite, RequestsFit
  <2>2. todo' \in [Requests -> SUBSET Tokens] /\ done' \in [Requests -> SUBSET Tokens]
    BY <1>11, <2>1 DEF DetectReuse, LogoutWrite, Active, TypeOK
  <2>3. pc' \in [Requests -> Phases]
    BY <1>11 DEF DetectReuse, LogoutWrite, TypeOK, Phases
  <2> QED
    BY <1>11, <2>2, <2>3 DEF DetectReuse, LogoutWrite, TypeOK
<1>10. ASSUME NEW t \in Tokens, Expire(t)
       PROVE  TypeOK'
  BY <1>10 DEF Expire, TypeOK
<1> QED
  BY <1>1, <1>3, <1>4, <1>6, <1>7, <1>8, <1>9, <1>10, <1>11 DEF Next, NotFound

\* A step of one request.
StepOf(r) ==
    \/ Login(r) \/ LoginCommit(r) \/ Rotate(r) \/ RotateCommit(r) \/ DetectReuse(r)
    \/ RevokeCommit(r) \/ LogoutWrite(r) \/ LogoutCommit(r) \/ Abort(r)
    \/ \E t \in Tokens : Present(r, t) \/ RevokeRow(r, t) \/ LogoutRead(r, t)

\* It leaves the others where they are, and numbers a new row above all others.
LEMMA RequestFrame ==
    ASSUME TypeOK, NEW r \in Requests, StepOf(r)
    PROVE  /\ \A q \in Requests : q # r => /\ pc'[q] = pc[q] /\ tok'[q] = tok[q] /\ new'[q] = new[q]
                                           /\ todo'[q] = todo[q] /\ done'[q] = done[q]
           /\ \/ issued' = issued /\ parent' = parent /\ new'[r] \in {0, new[r]}
              \/ /\ issued' = issued + 1 /\ new'[r] = issued + 1 /\ issued + 1 \in Tokens
                 /\ status' = status /\ covered' = covered
                 /\ parent' = [parent EXCEPT ![issued + 1] = parent'[issued + 1]]
<1>1. \A q \in Requests : q # r => /\ pc'[q] = pc[q] /\ tok'[q] = tok[q] /\ new'[q] = new[q]
                                   /\ todo'[q] = todo[q] /\ done'[q] = done[q]
  BY DEF StepOf, Login, LoginCommit, Rotate, RotateCommit, DetectReuse, RevokeCommit, LogoutWrite,
         LogoutCommit, Abort, Present, RevokeRow, LogoutRead, Issue, Finish, TypeOK
<1>2. CASE Login(r) \/ Rotate(r)
  <2>1. issued + 1 \in Tokens
    BY <1>2, TokensAssumption DEF Login, Rotate, Issue, Tokens, TypeOK
  <2> QED
    BY <1>1, <1>2, <2>1 DEF Login, Rotate, Issue, TypeOK
<1>3. CASE ~(Login(r) \/ Rotate(r))
  BY <1>1, <1>3 DEF StepOf, LoginCommit, RotateCommit, DetectReuse, RevokeCommit, LogoutWrite,
         LogoutCommit, Abort, Present, RevokeRow, LogoutRead, Finish, TypeOK
<1> QED
  BY <1>2, <1>3

\* Only the row it inserted becomes active, and only rows it has locked are
\* revoked.
LEMMA StatusStep ==
    ASSUME TypeOK, RequestsFit, NEW r \in Requests, StepOf(r), NEW t \in Tokens
    PROVE  \/ status'[t] = status[t]
           \/ status[t] # "absent" /\ status'[t] = "revoked" /\ t \in Holds(r)
           \/ /\ pc[r] \in {"issuing", "rotating"} /\ t = new[r]
              /\ status[t] = "absent" /\ status'[t] = "active"
<1>1. CASE LoginCommit(r)
  BY <1>1 DEF LoginCommit, RequestsFit, Fresh, TypeOK
<1>2. CASE RotateCommit(r)
  BY <1>2 DEF RotateCommit, RequestsFit, Fresh, Holds, Committed, TypeOK
<1>3. CASE RevokeCommit(r) \/ LogoutCommit(r)
  <2>1. status'[t] = status[t] \/ (status'[t] = "revoked" /\ t \in done[r])
    BY <1>3 DEF RevokeCommit, LogoutCommit, Revocation, TypeOK
  <2> QED
    BY <2>1 DEF RequestsFit, Holds, Committed
<1>4. CASE ~(LoginCommit(r) \/ RotateCommit(r) \/ RevokeCommit(r) \/ LogoutCommit(r))
  BY <1>4 DEF StepOf, Login, Rotate, DetectReuse, LogoutWrite, Abort, Present, RevokeRow, LogoutRead
<1> QED
  BY <1>1, <1>2, <1>3, <1>4

\* What the others have locked or inserted is out of its reach.
LEMMA OthersFit ==
    ASSUME TypeOK, RequestsFit, RequestsApart, NEW r \in Requests, StepOf(r),
           NEW q \in Requests, q # r
    PROVE  /\ pc'[q] \notin {"idle", "issuing"} => tok'[q] \in Tokens /\ tok'[q] \in Committed'
           /\ pc'[q] \in {"issuing", "rotating"} => Fresh(q)'
           /\ pc'[q] \notin {"issuing", "rotating"} => new'[q] = 0
           /\ pc'[q] = "issuing" => parent'[new'[q]] = 0
           /\ pc'[q] = "rotating" => parent'[new'[q]] = tok'[q] /\ status'[tok'[q]] = "active"
           /\ todo'[q] \subseteq Committed' /\ done'[q] \subseteq Committed'
<1>1. /\ pc'[q] = pc[q] /\ tok'[q] = tok[q] /\ new'[q] = new[q]
      /\ todo'[q] = todo[q] /\ done'[q] = done[q]
      /\ issued \in Nat /\ issued' \in Nat /\ issued <= issued'
  BY RequestFrame, TokensAssumption DEF TypeOK
<1>2. Committed \subseteq Committed'
  BY StatusStep DEF Committed
<1>3. /\ pc[q] \notin {"idle", "issuing"} => tok[q] \in Tokens /\ tok[q] \in Committed
      /\ pc[q] \in {"issuing", "rotating"} => Fresh(q)
      /\ pc[q] \notin {"issuing", "rotating"} => new[q] = 0
      /\ pc[q] = "issuing" => parent[new[q]] = 0
      /\ pc[q] = "rotating" => parent[new[q]] = tok[q] /\ status[tok[q]] = "active"
      /\ todo[q] \subseteq Committed /\ done[q] \subseteq Committed
  BY DEF RequestsFit
<1>4. ASSUME pc[q] \in {"issuing", "rotating"}
      PROVE  Fresh(q)' /\ parent'[new[q]] = parent[new[q]]
  <2>1. new[q] \in Tokens /\ new[q] <= issued /\ status[new[q]] = "absent" /\ new[q] \in Nat
    BY <1>3, <1>4 DEF Fresh, Tokens
  <2>2. new[q] # new[r] \/ pc[r] \notin {"issuing", "rotating"}
    <3>1. new[q] # 0
      BY <2>1 DEF Tokens
    <3> QED
      BY <3>1 DEF RequestsApart
  <2>3. status'[new[q]] = "absent"
    BY <2>1, <2>2, StatusStep
  <2>4. parent'[new[q]] = parent[new[q]]
    BY <1>1, <2>1, RequestFrame DEF TypeOK
  <2> QED
    BY <1>1, <2>1, <2>3, <2>4 DEF Fresh
<1>5. pc[q] = "rotating" => status'[tok[q]] = "active"
  <2>1. pc[q] = "rotating" => tok[q] \in Tokens /\ tok[q] \notin Holds(r)
    BY <1>3 DEF RequestsApart, Holds
  <2> QED
    BY <1>3, <2>1, StatusStep
<1> QED
  BY <1>1, <1>2, <1>3, <1>4, <1>5

LEMMA StepFit ==
    ASSUME TypeOK, TypeOK', RequestsFit, RequestsApart, NEW r \in Requests, StepOf(r)
    PROVE  RequestsFit'
<1>1. Committed \subseteq Committed'
  BY StatusStep DEF Committed
<1>2. /\ pc[r] \notin {"idle", "issuing"} => tok[r] \in Tokens /\ tok[r] \in Committed
      /\ pc[r] \notin {"issuing", "rotating"} => new[r] = 0
      /\ todo[r] \subseteq Committed /\ done[r] \subseteq Committed
      /\ issued \in Nat
  BY TokensAssumption DEF RequestsFit, TypeOK
<1> DEFINE Ready ==
        /\ pc'[r] \notin {"idle", "issuing"} => tok'[r] \in Tokens /\ tok'[r] \in Committed'
        /\ pc'[r] \in {"issuing", "rotating"} => Fresh(r)'
        /\ pc'[r] \notin {"issuing", "rotating"} => new'[r] = 0
        /\ pc'[r] = "issuing" => parent'[new'[r]] = 0
        /\ pc'[r] = "rotating" => parent'[new'[r]] = tok'[r] /\ status'[tok'[r]] = "active"
        /\ todo'[r] \subseteq Committed' /\ done'[r] \subseteq Committed'
<1> SUFFICES Ready
  BY OthersFit DEF RequestsFit
<1>3. ASSUME NEW t \in 0..MaxTokens, Issue(r, t), status' = status
      PROVE  Fresh(r)' /\ parent'[new'[r]] = t
  <2>1. /\ issued' = issued + 1 /\ new'[r] = issued + 1 /\ issued + 1 \in Tokens
        /\ parent'[issued + 1] = t
    BY <1>2, <1>3, TokensAssumption DEF Issue, Tokens, TypeOK
  <2>2. status[issued + 1] = "absent"
    BY <1>2, <2>1 DEF TypeOK
  <2> QED
    BY <1>2, <1>3, <2>1, <2>2 DEF Fresh
<1>4. CASE Login(r)
  <2>1. pc'[r] = "issuing" /\ todo' = todo /\ done' = done /\ status' = status
    BY <1>4 DEF Login, TypeOK
  <2>2. Fresh(r)' /\ parent'[new'[r]] = 0
    BY <1>3, <1>4, <2>1, TokensAssumption DEF Login
  <2> QED
    BY <1>1, <1>2, <2>1, <2>2
<1>5. CASE Rotate(r)
  <2>1. /\ pc'[r] = "rotating" /\ todo' = todo /\ done' = done /\ status' = status
        /\ tok' = tok /\ status[tok[r]] = "active" /\ pc[r] = "presented"
    BY <1>5 DEF Rotate, IsActive, TypeOK
  <2>2. Fresh(r)' /\ parent'[new'[r]] = tok[r]
    <3>1. tok[r] \in 0..MaxTokens
      BY DEF TypeOK
    <3> QED
      BY <1>3, <1>5, <2>1, <3>1 DEF Rotate
  <2> QED
    BY <1>1, <1>2, <2>1, <2>2
<1>6. CASE Finish(r)
  BY <1>6 DEF Finish, TypeOK
<1>7. ASSUME NEW t \in Tokens, Present(r, t) \/ LogoutRead(r, t)
      PROVE  Ready
  <2>1. /\ pc'[r] \in {"presented", "logout"} /\ tok'[r] = t /\ new' = new
        /\ todo' = todo /\ done' = done /\ pc[r] = "idle" /\ t \in Committed
    BY <1>7 DEF Present, LogoutRead, Committed, TypeOK
  <2> QED
    BY <1>1, <1>2, <2>1
<1>8. ASSUME NEW t \in Tokens, RevokeRow(r, t)
      PROVE  Ready
  <2>1. /\ pc' = pc /\ tok' = tok /\ new' = new /\ pc[r] = "revoking" /\ t \in todo[r]
        /\ todo'[r] = todo[r] \ {t} /\ done'[r] = done[r] \cup {t}
    BY <1>8 DEF RevokeRow, TypeOK
  <2> QED
    BY <1>1, <1>2, <2>1
<1>9. CASE DetectReuse(r) \/ LogoutWrite(r)
  <2>1. /\ pc'[r] \in {"revoking", "loggingout"} /\ tok' = tok /\ new' = new
        /\ pc[r] \in {"presented", "logout"}
        /\ todo'[r] \in {todo[r], Active} /\ done'[r] \in {done[r], {tok[r]}}
    BY <1>9 DEF DetectReuse, LogoutWrite, TypeOK
  <2>2. Active \subseteq Committed
    BY DEF Active, Committed
  <2> QED
    BY <1>1, <1>2, <2>1, <2>2
<1> QED
  BY <1>4, <1>5, <1>6, <1>7, <1>8, <1>9
     DEF StepOf, LoginCommit, RotateCommit, RevokeCommit, LogoutCommit, Abort

LEMMA StepApart ==
    ASSUME TypeOK, RequestsFit, RequestsApart, NEW r \in Requests, StepOf(r)
    PROVE  RequestsApart'
<1>1. ASSUME NEW q \in Requests, q # r
      PROVE  /\ new'[q] = new'[r] => new'[q] = 0
             /\ Holds(q)' \cap Holds(r)' = {}
  <2>1. /\ pc'[q] = pc[q] /\ tok'[q] = tok[q] /\ new'[q] = new[q] /\ done'[q] = done[q]
        /\ new'[r] \in {0, new[r]} \/ new'[r] = issued + 1
    BY <1>1, RequestFrame
  <2>2. new[q] # issued + 1
    <3>1. new[q] = 0 \/ new[q] <= issued
      BY DEF RequestsFit, Fresh
    <3> QED
      BY <3>1, TokensAssumption DEF TypeOK
  <2>3. new'[q] = new'[r] => new'[q] = 0
    BY <1>1, <2>1, <2>2 DEF RequestsApart
  <2>4. Holds(q)' = Holds(q)
    BY <2>1 DEF Holds
  <2>5. \A t \in Holds(r)' : t \in Holds(r) \/ Free(r, t)
    <3>1. CASE Finish(r)
      BY <3>1 DEF Finish, Holds, TypeOK
    <3>2. CASE Login(r) \/ Rotate(r) \/ DetectReuse(r) \/ LogoutWrite(r)
      BY <3>2 DEF Login, Rotate, DetectReuse, LogoutWrite, MayLock, Holds, TypeOK
    <3>3. ASSUME NEW u \in Tokens, Present(r, u) \/ RevokeRow(r, u) \/ LogoutRead(r, u)
          PROVE  \A t \in Holds(r)' : t \in Holds(r) \/ Free(r, t)
      BY <3>3 DEF Present, RevokeRow, LogoutRead, Holds, TypeOK
    <3> QED
      BY <3>1, <3>2, <3>3 DEF StepOf, LoginCommit, RotateCommit, RevokeCommit, LogoutCommit, Abort
  <2> QED
    BY <1>1, <2>3, <2>4, <2>5 DEF RequestsApart, Free
<1>2. ASSUME NEW p \in Requests, NEW q \in Requests, p # q, p # r, q # r
      PROVE  /\ new'[p] = new'[q] => new'[p] = 0
             /\ Holds(p)' \cap Holds(q)' = {}
  BY <1>2, RequestFrame DEF RequestsApart, Holds
<1> QED
  BY <1>1, <1>2 DEF RequestsApart

-----------------------------------------------------------------------------
(* Chains of tokens                                                        *)

\* A row is committed as the first of a login, or in the transaction that
\* revokes the row it replaces.
LEMMA CommitStep ==
    ASSUME TypeOK, RequestsFit, NEW r \in Requests, StepOf(r),
           NEW t \in Tokens, status[t] = "absent", status'[t] # "absent"
    PROVE  /\ t = new[r] /\ status'[t] = "active" /\ parent' = parent
           /\ \/ parent[t] = 0
              \/ /\ parent[t] = tok[r] /\ tok[r] \in Tokens /\ tok[r] # t
                 /\ status[tok[r]] = "active" /\ status'[tok[r]] = "revoked"
<1>1. t = new[r] /\ status'[t] = "active" /\ pc[r] \in {"issuing", "rotating"}
  BY StatusStep
<1>2. LoginCommit(r) \/ RotateCommit(r)
  BY <1>1 DEF StepOf, Login, LoginCommit, Rotate, RotateCommit, DetectReuse, RevokeCommit,
         LogoutWrite, LogoutCommit, Abort, Present, RevokeRow, LogoutRead
<1>3. CASE LoginCommit(r)
  BY <1>1, <1>3 DEF LoginCommit, RequestsFit
<1>4. CASE RotateCommit(r)
  <2>1. /\ parent' = parent /\ parent[t] = tok[r] /\ tok[r] \in Tokens
        /\ status[tok[r]] = "active"
    BY <1>1, <1>4 DEF RotateCommit, RequestsFit
  <2>2. status'[tok[r]] = "revoked"
    BY <1>1, <1>4, <2>1 DEF RotateCommit, TypeOK
  <2> QED
    BY <1>1, <2>1, <2>2
<1> QED
  BY <1>2, <1>3, <1>4

LEMMA StepChains ==
    ASSUME TypeOK, TypeOK', RequestsFit, ChainsFit, NEW r \in Requests, StepOf(r)
    PROVE  ChainsFit'
<1>0. /\ issued \in Nat /\ issued' \in Nat /\ Tokens \subseteq Nat
      /\ parent \in [Tokens -> 0..MaxTokens] /\ parent' \in [Tokens -> 0..MaxTokens]
  BY TokensAssumption DEF TypeOK, Tokens
<1>1. \A t \in Tokens : status[t] = "revoked" => status'[t] = "revoked"
  BY StatusStep
<1>2. \A c \in Committed : c \in Tokens /\ c <= issued /\ parent'[c] = parent[c]
  <2> SUFFICES ASSUME NEW c \in Committed
               PROVE  c \in Tokens /\ c <= issued /\ parent'[c] = parent[c]
    OBVIOUS
  <2>1. c \in Tokens /\ c <= issued
    BY <1>0 DEF Committed, TypeOK
  <2> QED
    BY <1>0, <2>1, RequestFrame
<1>3. \A t \in Tokens : t > issued' => parent'[t] = 0
  BY <1>0, RequestFrame DEF ChainsFit
<1>4. ASSUME NEW c \in Committed', c \notin Committed
      PROVE  /\ c \in Tokens /\ c = new[r] /\ parent' = parent
             /\ \/ parent[c] = 0
                \/ /\ parent[c] = tok[r] /\ tok[r] \in Tokens /\ tok[r] # c
                   /\ status[tok[r]] = "active" /\ status'[tok[r]] = "revoked"
  BY <1>4, CommitStep DEF Committed
<1>5. ASSUME NEW c \in Committed', parent'[c] # 0
      PROVE  parent'[c] \in Tokens /\ status'[parent'[c]] = "revoked"
  <2>1. CASE c \in Committed
    <3>1. parent[c] # 0 /\ parent'[c] = parent[c] /\ c \in Tokens
      BY <1>2, <1>5, <2>1
    <3>2. parent[c] \in Tokens
      BY <1>0, <3>1 DEF Tokens
    <3> QED
      BY <1>1, <2>1, <3>1, <3>2 DEF ChainsFit
  <2>2. CASE c \notin Committed
    BY <1>4, <1>5, <2>2
  <2> QED
    BY <2>1, <2>2
<1>6. ASSUME NEW c \in Committed', NEW d \in Committed', parent'[c] = parent'[d], parent'[c] # 0,
             c # d
      PROVE  FALSE
  <2>1. ASSUME NEW a \in Committed', NEW b \in Committed, a \notin Committed,
               parent'[a] = parent'[b], parent'[a] # 0
        PROVE  FALSE
    <3>1. parent[b] # 0 /\ parent[b] = tok[r] /\ status[tok[r]] = "active"
      BY <1>2, <1>4, <2>1
    <3> QED
      BY <3>1 DEF ChainsFit
  <2>2. CASE c \in Committed /\ d \in Committed
    BY <1>2, <1>6, <2>2 DEF ChainsFit
  <2> QED
    BY <1>4, <1>6, <2>1, <2>2
<1>7. ReuseRevokes'
  <2>1. \A t \in covered : t \in Tokens /\ status'[t] = "revoked"
    BY <1>1 DEF ChainsFit, ReuseRevokes, TypeOK
  <2>2. CASE RevokeCommit(r)
    <3>1. covered' = covered \cup done[r] /\ \A t \in done[r] : t \in Tokens /\ status'[t] = "revoked"
      BY <2>2 DEF RevokeCommit, Revocation, TypeOK
    <3> QED
      BY <2>1, <3>1 DEF ReuseRevokes
  <2>3. CASE ~RevokeCommit(r)
    <3>1. covered' = covered
      BY <2>3 DEF StepOf, Login, LoginCommit, Rotate, RotateCommit, DetectReuse,
         LogoutWrite, LogoutCommit, Abort, Present, RevokeRow, LogoutRead
    <3> QED
      BY <2>1, <3>1 DEF ReuseRevokes
  <2> QED
    BY <2>2, <2>3
<1> QED
  BY <1>3, <1>5, <1>6, <1>7 DEF ChainsFit

LEMMA StepRoots ==
    ASSUME TypeOK, TypeOK', RequestsFit, ChainsFit, RootsFit, NEW r \in Requests, StepOf(r)
    PROVE  RootsFit'
<1>0. /\ issued \in Nat /\ issued' \in Nat /\ Tokens \subseteq Nat
      /\ parent \in [Tokens -> 0..MaxTokens] /\ \A t \in Tokens : parent[t] < t
      /\ Active \subseteq Committed /\ Committed \subseteq Committed'
  <2>1. Active \subseteq Committed /\ Committed \subseteq Committed'
    BY StatusStep DEF Active, Committed
  <2> QED
    BY <2>1, TokensAssumption DEF TypeOK, Tokens
<1>1. \A c \in Committed : c \in Tokens /\ c <= issued
  BY <1>0 DEF Committed, TypeOK
<1>2. \A c \in Tokens : parent' = parent \/ c <= issued => Root'[c] = Root[c]
  <2>1. CASE parent' = parent
    BY <2>1, Zenon DEF Root
  <2>2. CASE parent' # parent
    <3>1. /\ issued + 1 \in Tokens /\ issued + 1 > issued
          /\ \A t \in Tokens : t # issued + 1 => parent'[t] = parent[t]
      BY <1>0, <2>2, RequestFrame
    <3>2. \A t \in Tokens : t # issued + 1 => Root'[t] = Root[t]
      BY <3>1, RootsStay
    <3>3. \A c \in Tokens : c <= issued => c # issued + 1
      BY <1>0
    <3> QED
      BY <2>2, <3>2, <3>3, Zenon
  <2> QED
    BY <2>1, <2>2
<1>3. \A c \in Committed : Root'[c] = Root[c]
  BY <1>1, <1>2
\* The root of a row that is being committed.
<1>4. ASSUME NEW c \in Committed', c \notin Committed
      PROVE  /\ c \in Tokens /\ Root'[c] = Root[c]
             /\ \/ Root[c] = c
                \/ /\ tok[r] \in Active /\ Root[c] = Root[tok[r]]
                   /\ tok[r] \notin Active'
  <2>1. /\ c \in Tokens /\ c = new[r] /\ parent' = parent
        /\ \/ parent[c] = 0
           \/ /\ parent[c] = tok[r] /\ tok[r] \in Tokens /\ tok[r] # c
              /\ status[tok[r]] = "active" /\ status'[tok[r]] = "revoked"
    BY <1>4, CommitStep DEF Committed
  <2>2. Root = [t \in Tokens |-> IF parent[t] = 0 THEN t ELSE Root[parent[t]]]
    BY <1>0, RootEquation
  <2>3. Root[c] = IF parent[c] = 0 THEN c ELSE Root[parent[c]]
    BY <2>1, <2>2
  <2>4. tok[r] \in Tokens => tok[r] # 0
    BY DEF Tokens
  <2> QED
    BY <1>2, <2>1, <2>3, <2>4 DEF Active
<1>5. \A s \in Committed' : Root'[s] \in Committed'
  BY <1>0, <1>3, <1>4 DEF RootsFit
<1>6. ASSUME NEW s \in Active', NEW t \in Active', Root'[s] = Root'[t]
      PROVE  s = t
  <2>0. Active' \subseteq Committed' /\ \A c \in Committed : c \in Active' => c \in Active
    BY <1>1, StatusStep DEF Active, Committed
  <2>1. ASSUME NEW a \in Active', NEW b \in Active', a \notin Committed, b \in Committed,
               Root'[a] = Root'[b]
        PROVE  FALSE
    <3>1. Root'[a] = Root[a] /\ Root'[b] = Root[b] /\ b \in Active
      BY <1>3, <1>4, <2>0, <2>1
    <3>2. Root[b] \in Committed
      BY <2>1 DEF RootsFit
    <3>3. tok[r] \in Active /\ Root[b] = Root[tok[r]] /\ tok[r] \notin Active'
      BY <1>4, <2>0, <2>1, <3>1, <3>2
    <3> QED
      BY <2>1, <3>1, <3>3 DEF RootsFit, OneLiveTokenPerLogin
  <2>2. CASE s \in Committed /\ t \in Committed
    BY <1>3, <1>6, <2>0, <2>2 DEF RootsFit, OneLiveTokenPerLogin
  <2>3. CASE s \notin Committed /\ t \notin Committed
    BY <2>0, <2>3, CommitStep DEF Committed
  <2> QED
    BY <1>6, <2>1, <2>2, <2>3
<1> QED
  BY <1>5, <1>6 DEF RootsFit, OneLiveTokenPerLogin

TokensInv == TypeOK /\ RequestsFit /\ RequestsApart /\ ChainsFit /\ RootsFit

LEMMA TokensStart == Init => TokensInv
<1> SUFFICES ASSUME Init PROVE TokensInv
  OBVIOUS
<1>1. Committed = {} /\ Active = {}
  BY DEF Init, Committed, Active
<1>2. TypeOK
  BY TokensAssumption DEF Init, TypeOK, Phases, Tokens
<1>3. RequestsFit /\ RequestsApart
  BY <1>1 DEF Init, RequestsFit, RequestsApart, Holds
<1>4. ChainsFit /\ RootsFit
  BY <1>1 DEF Init, ChainsFit, RootsFit, OneLiveTokenPerLogin, ReuseRevokes
<1> QED
  BY <1>2, <1>3, <1>4 DEF TokensInv

LEMMA TokensKept == TokensInv /\ [Next]_vars => TokensInv'
<1> SUFFICES ASSUME TokensInv, [Next]_vars PROVE TokensInv'
  OBVIOUS
<1>0. TypeOK /\ RequestsFit /\ RequestsApart /\ ChainsFit /\ RootsFit /\ TypeOK'
  BY TokensTyped DEF TokensInv
<1>1. ASSUME UNCHANGED <<issued, status, parent, pc, tok, new, todo, done, covered>>
      PROVE  RequestsFit' /\ RequestsApart' /\ ChainsFit' /\ RootsFit'
  <2>1. Root' = Root
    BY <1>1, Zenon DEF Root
  <2>2. RequestsFit' /\ RequestsApart'
    BY <1>0, <1>1 DEF RequestsFit, RequestsApart, Fresh, Holds, Committed
  <2>3. ChainsFit'
    BY <1>0, <1>1 DEF ChainsFit, Committed, ReuseRevokes
  <2>4. RootsFit'
    BY <1>0, <1>1, <2>1 DEF RootsFit, OneLiveTokenPerLogin, Committed, Active
  <2> QED
    BY <2>2, <2>3, <2>4
<1>2. ASSUME NEW r \in Requests, StepOf(r)
      PROVE  RequestsFit' /\ RequestsApart' /\ ChainsFit' /\ RootsFit'
  BY <1>0, <1>2, StepFit, StepApart, StepChains, StepRoots
<1>3. (\E r \in Requests : StepOf(r))
      \/ UNCHANGED <<issued, status, parent, pc, tok, new, todo, done, covered>>
  BY DEF Next, StepOf, NotFound, Expire, vars
<1> QED
  BY <1>0, <1>1, <1>2, <1>3 DEF TokensInv

LEMMA TokensInvImplies == TokensInv => TokensSafe
<1> SUFFICES ASSUME TokensInv PROVE TokensSafe
  OBVIOUS
<1>1. ASSUME NEW t \in Tokens
      PROVE  Cardinality(Successors(t)) <= 1
  <2>1. \A c, d \in Successors(t) : c = d
    BY <1>1 DEF TokensInv, ChainsFit, Successors, Tokens
  <2>2. CASE Successors(t) = {}
    BY <2>2, FS_EmptySet
  <2>3. CASE Successors(t) # {}
    <3>1. PICK c \in Successors(t) : TRUE
      BY <2>3
    <3>2. Successors(t) = {c}
      BY <2>1, <3>1
    <3> QED
      BY <3>2, FS_Singleton
  <2> QED
    BY <2>2, <2>3
<1> QED
  BY <1>1 DEF TokensInv, ChainsFit, RootsFit, TokensSafe, OneSuccessor

\* A stolen refresh token is worth one use, whatever requests of the user race
\* or are cut off: a token is exchanged at most once, a login is represented by
\* one live token, and a detected reuse stays revoked (rotate, revoke_all and
\* the refresh endpoint).
THEOREM TokensAreSafe == Spec => []TokensSafe
BY TokensStart, TokensKept, TokensInvImplies, PTL DEF Spec
-----------------------------------------------------------------------------
(* The dashboard's session                                                 *)

AskedUpTo(n) == [pc : Steps \ {"idle"}, token : {"none", "valid", "expired"},
                 tries : {1, 2}, me : BOOLEAN, carries : 0..n]

Asked == AskedUpTo(minted)

FetchesFit ==
    /\ fetch \in [Fetches -> {NoFetch} \cup Asked]
    /\ leaving.pc = "no" => leaving = NotLeaving

\* In a session renewed serially the cookie is the newest token, or the answer
\* to the one refresh in progress is.
SerialFits ==
    serial =>
        /\ leaving = NotLeaving
        /\ \A f, g \in Fetches : Refreshing(f) /\ Refreshing(g) => f = g
        /\ \A f \in Fetches : fetch[f].pc = "refreshing" => fetch[f].carries = cookie
        /\ \A f \in Fetches : fetch[f].pc = "refreshed" => fetch[f].carries = minted
        /\ (\A f \in Fetches : fetch[f].pc # "refreshed") => cookie = minted
        /\ minted # 0 => minted \in liveTokens

\* After a sign-out from such a session its newest token is on its way to be
\* revoked or revoked, and no refresh carries one.
QuietFits ==
    quiet =>
        /\ stored = "none"
        /\ \A f \in Fetches : Refreshing(f) => leaving = NotLeaving /\ fetch[f].carries = 0
        /\ leaving.pc = "sent" => leaving.token = minted
        /\ leaving.pc # "sent" => minted \notin liveTokens
        /\ leaving = NotLeaving => cookie = 0

DashboardInv == DashboardTypeOK /\ FetchesFit /\ SerialFits /\ QuietFits

FetchStep(f) ==
    \/ \E me \in BOOLEAN : Request(f, me)
    \/ Answer(f) \/ AskRefresh(f) \/ ServeRefresh(f) \/ TakeRefresh(f) \/ LoseFetch(f)

LEMMA AskedGrows ==
    ASSUME NEW m \in Nat, NEW n \in Nat, m <= n, NEW a \in AskedUpTo(m)
    PROVE  a \in AskedUpTo(n)
BY DEF AskedUpTo

\* A step of one request leaves the others and the sign-out alone.
LEMMA OneFetchMoves ==
    ASSUME DashboardTypeOK, FetchesFit, NEW f \in Fetches, FetchStep(f)
    PROVE  /\ minted \in Nat /\ minted' \in {minted, minted + 1} /\ leaving' = leaving
           /\ \A g \in Fetches : g # f => fetch'[g] = fetch[g]
           /\ fetch'[f] = NoFetch \/ fetch'[f] \in AskedUpTo(minted')
           /\ fetch' = [fetch EXCEPT ![f] = fetch'[f]]
<1>0. minted \in Nat /\ fetch[f] \in {NoFetch} \cup Asked /\ stored \in {"none", "valid", "expired"}
  BY DashboardAssumption DEF DashboardTypeOK, FetchesFit
<1>1. minted' \in {minted, minted + 1} /\ leaving' = leaving
  BY DEF FetchStep, Request, Answer, AskRefresh, ServeRefresh, TakeRefresh, LoseFetch, Throw
<1>2. /\ \A g \in Fetches : g # f => fetch'[g] = fetch[g]
      /\ fetch' = [fetch EXCEPT ![f] = fetch'[f]]
  BY DEF FetchStep, Request, Answer, AskRefresh, ServeRefresh, TakeRefresh, LoseFetch, Throw,
         FetchesFit
<1> SUFFICES fetch'[f] = NoFetch \/ fetch'[f] \in AskedUpTo(minted')
  BY <1>0, <1>1, <1>2
<1>4. fetch[f].pc # "idle" => fetch[f] \in AskedUpTo(minted')
  <2>1. minted' \in Nat /\ minted <= minted'
    BY <1>0, <1>1
  <2> QED
    BY <1>0, <2>1, AskedGrows DEF NoFetch, Asked
<1>5. ASSUME NEW me \in BOOLEAN, Request(f, me)
      PROVE  fetch'[f] \in AskedUpTo(minted')
  <2>1. fetch'[f] = [pc |-> "sent", token |-> stored, tries |-> 1, me |-> me, carries |-> 0]
    BY <1>5 DEF Request, FetchesFit
  <2>2. 0 \in 0..minted' /\ "sent" \in Steps \ {"idle"}
    BY <1>0, <1>1 DEF Steps
  <2> QED
    BY <1>0, <2>1, <2>2 DEF AskedUpTo
<1>6. CASE Answer(f)
  <2>1. \/ fetch'[f] = NoFetch
        \/ fetch'[f] = [fetch[f] EXCEPT !.pc = "unauthorized"] /\ fetch[f].pc # "idle"
    BY <1>6 DEF Answer, Throw, FetchesFit
  <2> QED
    BY <1>4, <2>1 DEF AskedUpTo, Steps
<1>7. CASE AskRefresh(f)
  <2>1. fetch'[f] = [fetch[f] EXCEPT !.pc = "refreshing", !.carries = cookie]
        /\ fetch[f] \in AskedUpTo(minted')
    BY <1>4, <1>7 DEF AskRefresh, FetchesFit
  <2>2. cookie \in 0..minted'
    BY <1>7 DEF AskRefresh, DashboardTypeOK
  <2> QED
    BY <2>1, <2>2 DEF AskedUpTo, Steps
<1>8. CASE ServeRefresh(f)
  <2>1. /\ fetch[f] \in AskedUpTo(minted')
        /\ \/ fetch'[f] = [fetch[f] EXCEPT !.pc = "refreshed", !.carries = minted']
           \/ fetch'[f] = [fetch[f] EXCEPT !.pc = "refreshed", !.carries = 0]
    BY <1>4, <1>8 DEF ServeRefresh, FetchesFit
  <2>2. minted' \in 0..minted' /\ 0 \in 0..minted'
    BY <1>0, <1>1
  <2> QED
    BY <2>1, <2>2 DEF AskedUpTo, Steps
<1>9. CASE TakeRefresh(f)
  <2>1. /\ fetch[f] \in AskedUpTo(minted')
        /\ \/ fetch'[f] = [fetch[f] EXCEPT !.pc = "sent", !.token = "valid", !.tries = 2]
           \/ fetch'[f] = NoFetch
    BY <1>4, <1>9 DEF TakeRefresh, Throw, FetchesFit
  <2> QED
    BY <2>1 DEF AskedUpTo, Steps
<1>10. CASE LoseFetch(f)
  BY <1>10 DEF LoseFetch, Throw, FetchesFit
<1> QED
  BY <1>5, <1>6, <1>7, <1>8, <1>9, <1>10 DEF FetchStep

LEMMA DashboardTyped ==
    ASSUME DashboardTypeOK, FetchesFit, DashboardNext
    PROVE  DashboardTypeOK' /\ FetchesFit'
<1>0. /\ minted \in Nat /\ minted <= MaxRefresh /\ MaxRefresh \in Nat
      /\ liveTokens \subseteq 1..minted /\ cookie \in 0..minted
      /\ leaving \in [pc : {"no", "sent", "served"}, token : 0..minted]
  BY DashboardAssumption DEF DashboardTypeOK
<1> DEFINE Rest == /\ stored' \in {"none", "valid", "expired"}
                   /\ user' \in BOOLEAN /\ serial' \in BOOLEAN /\ quiet' \in BOOLEAN
           Counts == /\ minted' \in 0..MaxRefresh /\ liveTokens' \subseteq 1..minted'
                     /\ cookie' \in 0..minted'
           Leaves == /\ leaving' \in [pc : {"no", "sent", "served"}, token : 0..minted']
                     /\ leaving'.pc = "no" => leaving' = NotLeaving
           Fetching == fetch' \in [Fetches -> {NoFetch} \cup AskedUpTo(minted')]
<1> SUFFICES Rest /\ Counts /\ Leaves /\ Fetching
  <2>1. ASSUME NEW f \in Fetches, Fetching
        PROVE  fetch'[f].pc \in Steps /\ (fetch'[f].pc # "idle" => fetch'[f].tries \in 1..2)
    <3>1. fetch'[f] \in {NoFetch} \cup AskedUpTo(minted')
      BY <2>1
    <3>2. CASE fetch'[f] = NoFetch
      BY <3>2 DEF NoFetch, Steps
    <3>3. CASE fetch'[f] \in AskedUpTo(minted')
      <4>1. fetch'[f].pc \in Steps /\ fetch'[f].tries \in {1, 2}
        BY <3>3 DEF AskedUpTo
      <4> QED
        BY <4>1
    <3> QED
      BY <3>1, <3>2, <3>3
  <2> QED
    BY <2>1 DEF DashboardTypeOK, FetchesFit, Asked
<1>1. ASSUME NEW f \in Fetches, FetchStep(f)
      PROVE  Rest /\ Counts /\ Leaves /\ Fetching
  <2>1. minted' \in {minted, minted + 1} /\ minted' \in Nat /\ minted <= minted'
    BY <1>0, <1>1, OneFetchMoves
  <2>2. Rest
    BY <1>1 DEF FetchStep, Request, Answer, AskRefresh, ServeRefresh, TakeRefresh, LoseFetch,
                Throw, DashboardTypeOK
  <2>3. Leaves
    <3>1. leaving' = leaving /\ 0..minted \subseteq 0..minted'
      BY <1>0, <1>1, <2>1, OneFetchMoves
    <3> QED
      BY <1>0, <3>1 DEF FetchesFit
  <2>4. Fetching
    <3>1. ASSUME NEW g \in Fetches
          PROVE  fetch'[g] \in {NoFetch} \cup AskedUpTo(minted')
      <4>1. CASE g = f
        BY <1>1, <4>1, OneFetchMoves
      <4>2. CASE g # f
        <5>1. fetch'[g] = fetch[g] /\ fetch[g] \in {NoFetch} \cup AskedUpTo(minted)
          BY <1>1, <4>2, OneFetchMoves DEF FetchesFit, Asked
        <5> QED
          BY <1>0, <2>1, <5>1, AskedGrows
      <4> QED
        BY <4>1, <4>2
    <3>2. fetch' = [g \in Fetches |-> fetch'[g]]
      BY <1>1, OneFetchMoves DEF FetchesFit
    <3> QED
      BY <3>1, <3>2
  <2>5. Counts
    <3>1. CASE ServeRefresh(f)
      <4>1. minted < MaxRefresh /\ cookie' = cookie
        BY <3>1 DEF ServeRefresh
      <4>2. CASE minted' = minted + 1 /\ liveTokens' \subseteq liveTokens \cup {minted + 1}
        <5>1. minted' \in 0..MaxRefresh
          BY <1>0, <4>1, <4>2
        <5>2. liveTokens' \subseteq 1..minted'
          BY <1>0, <4>2
        <5>3. cookie' \in 0..minted'
          BY <1>0, <4>1, <4>2
        <5> QED
          BY <5>1, <5>2, <5>3
      <4>3. CASE minted' = minted /\ liveTokens' \subseteq liveTokens
        BY <1>0, <4>1, <4>3
      <4> QED
        BY <3>1, <4>2, <4>3 DEF ServeRefresh
    <3>2. CASE TakeRefresh(f)
      <4>1. fetch[f] \in AskedUpTo(minted)
        BY <3>2 DEF TakeRefresh, FetchesFit, NoFetch, Asked
      <4>2. fetch[f].carries \in 0..minted
        BY <4>1 DEF AskedUpTo
      <4> QED
        BY <1>0, <3>2, <4>2 DEF TakeRefresh, NewCookie
    <3>3. CASE ~ServeRefresh(f) /\ ~TakeRefresh(f)
      <4>1. minted' = minted /\ liveTokens' = liveTokens /\ cookie' = cookie
        BY <1>1, <3>3 DEF FetchStep, Request, Answer, AskRefresh, LoseFetch
      <4> QED
        BY <1>0, <4>1
    <3> QED
      BY <3>1, <3>2, <3>3
  <2> QED
    BY <2>2, <2>3, <2>4, <2>5
<1>2. CASE SignIn
  <2>1. /\ minted' = minted + 1 /\ minted' \in Nat /\ minted <= minted'
        /\ 0..minted \subseteq 0..minted' /\ leaving' = leaving
    BY <1>0, <1>2 DEF SignIn
  <2>2. Counts
    BY <1>0, <1>2, <2>1 DEF SignIn
  <2>3. Leaves
    BY <1>0, <2>1 DEF FetchesFit
  <2>4. Fetching
    BY <1>0, <1>2, <2>1, AskedGrows DEF SignIn, FetchesFit, Asked
  <2>5. Rest
    BY <1>2 DEF SignIn, DashboardTypeOK
  <2> QED
    BY <2>2, <2>3, <2>4, <2>5
<1>3. CASE SignOut \/ ServeSignOut \/ SignedOut \/ LoseSignOut
  <2>1. minted' = minted /\ fetch' = fetch
    BY <1>3 DEF SignOut, ServeSignOut, SignedOut, LoseSignOut
  <2>2. Counts
    BY <1>0, <1>3 DEF SignOut, ServeSignOut, SignedOut, LoseSignOut, Revoked
  <2>3. Leaves
    BY <1>0, <1>3, <2>1 DEF SignOut, ServeSignOut, SignedOut, LoseSignOut, NotLeaving, FetchesFit
  <2>4. Rest
    BY <1>3 DEF SignOut, ServeSignOut, SignedOut, LoseSignOut, DashboardTypeOK
  <2> QED
    BY <2>1, <2>2, <2>3, <2>4 DEF FetchesFit, Asked
<1>4. CASE AccessExpires
  <2>1. minted' = minted /\ leaving' = leaving /\ Rest /\ Counts
    BY <1>0, <1>4 DEF AccessExpires, DashboardTypeOK
  <2>2. \A f \in Fetches : fetch'[f] \in {NoFetch} \cup AskedUpTo(minted)
    <3> SUFFICES ASSUME NEW f \in Fetches
                 PROVE  fetch'[f] \in {NoFetch} \cup AskedUpTo(minted)
      OBVIOUS
    <3>1. fetch[f] \in {NoFetch} \cup AskedUpTo(minted)
      BY DEF FetchesFit, Asked
    <3>2. \/ fetch'[f] = fetch[f]
          \/ fetch'[f] = [fetch[f] EXCEPT !.token = "expired"] /\ fetch[f].pc = "sent"
      BY <1>4 DEF AccessExpires
    <3> QED
      BY <3>1, <3>2 DEF AskedUpTo, NoFetch
  <2>3. fetch' = [f \in Fetches |-> fetch'[f]]
    BY <1>4 DEF AccessExpires
  <2> QED
    BY <1>0, <2>1, <2>2, <2>3 DEF FetchesFit
<1>5. CASE SignInFails
  BY <1>0, <1>5 DEF SignInFails, dashboardVars, DashboardTypeOK, FetchesFit, Asked
<1> QED
  BY <1>1, <1>2, <1>3, <1>4, <1>5 DEF DashboardNext, FetchStep

\* A step of one request, phase by phase.
LEMMA FetchPhases ==
    ASSUME DashboardTypeOK, FetchesFit, NEW f \in Fetches, FetchStep(f)
    PROVE  \/ /\ fetch[f].pc \in {"idle", "sent"} /\ fetch'[f].pc \in {"idle", "sent", "unauthorized"}
              /\ UNCHANGED <<minted, liveTokens, cookie, quiet>>
              /\ serial' \in BOOLEAN /\ (serial' => serial)
              /\ stored' \in {stored, "none"}
           \/ /\ fetch[f].pc = "unauthorized" /\ fetch'[f].pc = "refreshing"
              /\ fetch'[f].carries = cookie
              /\ serial' = (serial /\ leaving = NotLeaving /\ \A g \in Fetches : ~Refreshing(g))
              /\ quiet' = (quiet /\ leaving = NotLeaving)
              /\ UNCHANGED <<minted, liveTokens, cookie, stored>>
           \/ /\ fetch[f].pc = "refreshing" /\ fetch'[f].pc = "refreshed"
              /\ \/ /\ fetch[f].carries \in liveTokens
                    /\ minted' = minted + 1 /\ minted + 1 \in liveTokens'
                    /\ fetch'[f].carries = minted + 1
                 \/ /\ fetch[f].carries \notin liveTokens /\ fetch'[f].carries = 0
                    /\ minted' = minted
                    /\ liveTokens' = IF fetch[f].carries = 0 THEN liveTokens ELSE {}
              /\ UNCHANGED <<cookie, stored, serial, quiet>>
           \/ /\ fetch[f].pc = "refreshed"
              /\ fetch'[f].pc = "idle" \/ (fetch'[f].pc = "sent" /\ fetch[f].carries # 0)
              /\ \/ fetch[f].carries = 0 /\ cookie' = cookie /\ stored' \in {stored, "none"}
                                         /\ serial' = serial
                 \/ fetch[f].carries # 0 /\ cookie' = fetch[f].carries /\ serial' = serial
                 \/ fetch[f].carries # 0 /\ cookie' = cookie /\ serial' = FALSE
              /\ UNCHANGED <<minted, liveTokens, quiet>>
           \/ /\ fetch[f].pc = "refreshing" /\ fetch'[f].pc = "idle"
              /\ UNCHANGED <<minted, liveTokens, cookie, serial, quiet>>
              /\ stored' \in {stored, "none"}
<1>0. /\ NoFetch.pc = "idle" /\ serial \in BOOLEAN
      /\ fetch[f].pc # "idle" => fetch[f] \in AskedUpTo(minted)
  BY DEF NoFetch, FetchesFit, Asked, DashboardTypeOK
<1>1. ASSUME NEW me \in BOOLEAN, Request(f, me)
      PROVE  /\ fetch[f].pc = "idle" /\ fetch'[f].pc = "sent" /\ serial' = serial
             /\ UNCHANGED <<minted, liveTokens, cookie, quiet, stored>>
  BY <1>1 DEF Request, FetchesFit
<1>2. CASE Answer(f)
  BY <1>0, <1>2 DEF Answer, Throw, FetchesFit, AskedUpTo
<1>3. CASE AskRefresh(f)
  BY <1>0, <1>3 DEF AskRefresh, FetchesFit, AskedUpTo
<1>4. CASE ServeRefresh(f)
  BY <1>0, <1>4 DEF ServeRefresh, FetchesFit, AskedUpTo
<1>5. CASE TakeRefresh(f)
  BY <1>0, <1>5 DEF TakeRefresh, NewCookie, Throw, FetchesFit, AskedUpTo
<1>6. CASE LoseFetch(f)
  BY <1>0, <1>6 DEF LoseFetch, Throw, FetchesFit
<1> QED
  BY <1>0, <1>1, <1>2, <1>3, <1>4, <1>5, <1>6 DEF FetchStep

LEMMA SerialStep ==
    ASSUME DashboardTypeOK, FetchesFit, SerialFits, DashboardNext
    PROVE  SerialFits'
<1>0. /\ minted \in Nat /\ liveTokens \subseteq 1..minted /\ cookie \in 0..minted
  BY DashboardAssumption DEF DashboardTypeOK
<1>1. ASSUME NEW f \in Fetches, FetchStep(f)
      PROVE  SerialFits'
  <2>0. SUFFICES ASSUME serial'
                 PROVE  /\ leaving' = NotLeaving
                        /\ \A g, h \in Fetches : Refreshing(g)' /\ Refreshing(h)' => g = h
                        /\ \A g \in Fetches : fetch'[g].pc = "refreshing" => fetch'[g].carries = cookie'
                        /\ \A g \in Fetches : fetch'[g].pc = "refreshed" => fetch'[g].carries = minted'
                        /\ (\A g \in Fetches : fetch'[g].pc # "refreshed") => cookie' = minted'
                        /\ minted' # 0 => minted' \in liveTokens'
    BY DEF SerialFits
  <2>1. serial
    BY <1>1, <2>0, FetchPhases
  <2>2. /\ leaving = NotLeaving
        /\ \A g, h \in Fetches : Refreshing(g) /\ Refreshing(h) => g = h
        /\ \A g \in Fetches : fetch[g].pc = "refreshing" => fetch[g].carries = cookie
        /\ \A g \in Fetches : fetch[g].pc = "refreshed" => fetch[g].carries = minted
        /\ (\A g \in Fetches : fetch[g].pc # "refreshed") => cookie = minted
        /\ minted # 0 => minted \in liveTokens
    BY <2>1 DEF SerialFits
  <2>3. leaving' = leaving /\ \A g \in Fetches : g # f => fetch'[g] = fetch[g]
    BY <1>1, OneFetchMoves
  <2>4. \A g \in Fetches : g # f => Refreshing(g)' = Refreshing(g)
    BY <2>3 DEF Refreshing
  <2>5. CASE /\ fetch[f].pc \in {"idle", "sent"} /\ fetch'[f].pc \in {"idle", "sent", "unauthorized"}
             /\ UNCHANGED <<minted, liveTokens, cookie>>
    BY <2>2, <2>3, <2>4, <2>5 DEF Refreshing
  <2>6. CASE /\ fetch[f].pc = "unauthorized" /\ fetch'[f].pc = "refreshing"
             /\ fetch'[f].carries = cookie /\ \A g \in Fetches : ~Refreshing(g)
             /\ UNCHANGED <<minted, liveTokens, cookie>>
    BY <2>2, <2>3, <2>4, <2>6 DEF Refreshing
  <2>7. CASE fetch[f].pc = "refreshing" /\ fetch'[f].pc = "refreshed"
    <3>1. \A g \in Fetches : g # f => ~Refreshing(g) /\ ~Refreshing(g)'
      BY <2>2, <2>4, <2>7 DEF Refreshing
    <3>2. cookie = minted /\ fetch[f].carries = minted
      BY <2>2, <2>7, <3>1 DEF Refreshing
    <3>3. fetch'[f].carries = minted' /\ (minted' # 0 => minted' \in liveTokens')
      BY <1>0, <1>1, <2>2, <2>7, <3>2, FetchPhases
    <3> QED
      BY <2>2, <2>3, <2>7, <3>1, <3>3 DEF Refreshing
  <2>8. CASE /\ fetch[f].pc = "refreshed"
             /\ \/ fetch[f].carries = 0 /\ cookie' = cookie
                \/ fetch[f].carries # 0 /\ cookie' = fetch[f].carries
             /\ fetch'[f].pc \in {"idle", "sent"}
             /\ UNCHANGED <<minted, liveTokens>>
    <3>1. \A g \in Fetches : ~Refreshing(g)'
      BY <2>2, <2>4, <2>8 DEF Refreshing
    <3>2. cookie' = minted'
      BY <1>0, <2>2, <2>8
    <3> QED
      BY <2>2, <2>3, <2>8, <3>1, <3>2 DEF Refreshing
  <2>9. CASE /\ fetch[f].pc = "refreshing" /\ fetch'[f].pc = "idle"
             /\ UNCHANGED <<minted, liveTokens, cookie>>
    <3>1. \A g \in Fetches : g # f => ~Refreshing(g) /\ ~Refreshing(g)'
      BY <2>2, <2>4, <2>9 DEF Refreshing
    <3>2. cookie = minted
      BY <2>2, <2>9, <3>1 DEF Refreshing
    <3> QED
      BY <2>2, <2>3, <2>9, <3>1, <3>2 DEF Refreshing
  <2> QED
    BY <1>1, <2>0, <2>5, <2>6, <2>7, <2>8, <2>9, FetchPhases
<1>2. CASE SignIn
  <2>1. /\ minted' = minted + 1 /\ minted + 1 \in liveTokens' /\ cookie' = minted + 1
        /\ fetch' = fetch /\ leaving' = leaving
        /\ serial' => leaving = NotLeaving /\ \A f \in Fetches : fetch[f].pc = "idle"
    BY <1>2 DEF SignIn
  <2>2. serial' => \A f \in Fetches : fetch'[f].pc = "idle" /\ ~Refreshing(f)'
    BY <2>1 DEF Refreshing
  <2>3. serial' => /\ leaving' = NotLeaving /\ cookie' = minted'
                   /\ (minted' # 0 => minted' \in liveTokens')
    BY <2>1
  <2> QED
    BY <2>2, <2>3 DEF SerialFits
<1>3. CASE SignOut
  BY <1>3 DEF SignOut, SerialFits
<1>4. CASE ServeSignOut \/ SignedOut \/ LoseSignOut
  <2>1. leaving # NotLeaving
    BY <1>4 DEF ServeSignOut, SignedOut, LoseSignOut, NotLeaving
  <2>2. serial' = serial
    BY <1>4 DEF ServeSignOut, SignedOut, LoseSignOut
  <2> QED
    BY <2>1, <2>2 DEF SerialFits
<1>5. CASE AccessExpires
  <2>1. \A f \in Fetches : fetch'[f].pc = fetch[f].pc /\ (Refreshing(f) => fetch'[f] = fetch[f])
    <3> SUFFICES ASSUME NEW f \in Fetches
                 PROVE  fetch'[f].pc = fetch[f].pc /\ (Refreshing(f) => fetch'[f] = fetch[f])
      OBVIOUS
    <3>1. fetch[f] \in {NoFetch} \cup AskedUpTo(minted)
      BY DEF FetchesFit, Asked
    <3>2. fetch[f].pc = "sent" => fetch[f] \in AskedUpTo(minted)
      BY <3>1 DEF NoFetch
    <3> QED
      BY <1>5, <3>2 DEF AccessExpires, Refreshing, AskedUpTo
  <2>2. UNCHANGED <<minted, liveTokens, cookie, leaving, serial>>
    BY <1>5 DEF AccessExpires
  <2> QED
    BY <2>1, <2>2 DEF SerialFits, Refreshing
<1>6. CASE SignInFails
  BY <1>6 DEF SignInFails, dashboardVars, SerialFits, Refreshing
<1> QED
  BY <1>1, <1>2, <1>3, <1>4, <1>5, <1>6 DEF DashboardNext, FetchStep

LEMMA QuietStep ==
    ASSUME DashboardTypeOK, FetchesFit, SerialFits, QuietFits, DashboardNext
    PROVE  QuietFits'
<1>0. /\ minted \in Nat /\ liveTokens \subseteq 1..minted /\ cookie \in 0..minted
      /\ 0 \notin liveTokens
  BY DashboardAssumption DEF DashboardTypeOK
<1>1. ASSUME NEW f \in Fetches, FetchStep(f)
      PROVE  QuietFits'
  <2>0. SUFFICES ASSUME quiet'
                 PROVE  /\ stored' = "none"
                        /\ \A g \in Fetches : Refreshing(g)' => leaving' = NotLeaving /\ fetch'[g].carries = 0
                        /\ leaving'.pc = "sent" => leaving'.token = minted'
                        /\ leaving'.pc # "sent" => minted' \notin liveTokens'
                        /\ leaving' = NotLeaving => cookie' = 0
    BY DEF QuietFits
  <2>1. quiet
    BY <1>1, <2>0, FetchPhases
  <2>2. /\ stored = "none"
        /\ \A g \in Fetches : Refreshing(g) => leaving = NotLeaving /\ fetch[g].carries = 0
        /\ leaving.pc = "sent" => leaving.token = minted
        /\ leaving.pc # "sent" => minted \notin liveTokens
        /\ leaving = NotLeaving => cookie = 0
    BY <2>1 DEF QuietFits
  <2>3. leaving' = leaving /\ \A g \in Fetches : g # f => fetch'[g] = fetch[g]
    BY <1>1, OneFetchMoves
  <2>4. \A g \in Fetches : g # f =>
           /\ Refreshing(g)' = Refreshing(g)
           /\ Refreshing(g)' => leaving' = NotLeaving /\ fetch'[g].carries = 0
    BY <2>2, <2>3 DEF Refreshing
  <2>5. /\ stored' = "none" /\ minted' = minted /\ liveTokens' = liveTokens /\ cookie' = cookie
        /\ Refreshing(f)' => leaving' = NotLeaving /\ fetch'[f].carries = 0
    BY <1>0, <1>1, <2>0, <2>1, <2>2, <2>3, FetchPhases DEF Refreshing
  <2> QED
    BY <2>2, <2>3, <2>4, <2>5
<1>2. CASE SignIn
  BY <1>2 DEF SignIn, QuietFits
<1>3. CASE SignOut
  <2>0. SUFFICES ASSUME quiet' PROVE QuietFits'
    BY DEF QuietFits
  <2>1. serial /\ \A f \in Fetches : fetch[f].pc = "idle"
    BY <1>3, <2>0 DEF SignOut
  <2>2. cookie = minted
    BY <2>1 DEF SerialFits
  <2> QED
    BY <1>3, <2>1, <2>2 DEF SignOut, QuietFits, Refreshing, NotLeaving
<1>4. CASE ServeSignOut
  <2>1. leaving \in [pc : {"no", "sent", "served"}, token : 0..minted]
    BY DEF DashboardTypeOK
  <2>2. /\ leaving.pc = "sent" /\ leaving'.pc = "served" /\ leaving # NotLeaving
        /\ liveTokens' = liveTokens \ {leaving.token}
        /\ UNCHANGED <<minted, cookie, stored, user, fetch, serial, quiet>>
    BY <1>4, <2>1 DEF ServeSignOut, Revoked, NotLeaving
  <2>3. leaving' # NotLeaving
    BY <2>2 DEF NotLeaving
  <2> QED
    BY <2>2, <2>3 DEF QuietFits, Refreshing
<1>5. CASE SignedOut
  <2>1. /\ leaving.pc = "served" /\ leaving # NotLeaving /\ leaving' = NotLeaving /\ leaving'.pc = "no"
        /\ cookie' = 0
        /\ UNCHANGED <<minted, liveTokens, stored, user, fetch, serial, quiet>>
    BY <1>5 DEF SignedOut, NotLeaving
  <2> QED
    BY <2>1 DEF QuietFits, Refreshing
<1>6. CASE LoseSignOut
  BY <1>6 DEF LoseSignOut, QuietFits
<1>7. CASE AccessExpires
  <2>1. \A f \in Fetches : Refreshing(f)' => Refreshing(f) /\ fetch'[f] = fetch[f]
    <3> SUFFICES ASSUME NEW f \in Fetches, Refreshing(f)'
                 PROVE  Refreshing(f) /\ fetch'[f] = fetch[f]
      OBVIOUS
    <3>1. fetch[f] \in {NoFetch} \cup AskedUpTo(minted)
      BY DEF FetchesFit, Asked
    <3>2. fetch[f].pc = "sent" => fetch[f] \in AskedUpTo(minted)
      BY <3>1 DEF NoFetch
    <3> QED
      BY <1>7, <3>2 DEF AccessExpires, Refreshing, AskedUpTo
  <2>2. /\ UNCHANGED <<minted, liveTokens, cookie, leaving, quiet>>
        /\ stored = "none" => stored' = "none"
    BY <1>7 DEF AccessExpires
  <2> QED
    BY <2>1, <2>2 DEF QuietFits
<1>8. CASE SignInFails
  BY <1>8 DEF SignInFails, dashboardVars, QuietFits, Refreshing
<1> QED
  BY <1>1, <1>2, <1>3, <1>4, <1>5, <1>6, <1>7, <1>8 DEF DashboardNext, FetchStep

LEMMA DashboardStart == DashboardInit => DashboardInv
<1> SUFFICES ASSUME DashboardInit PROVE DashboardInv
  OBVIOUS
<1>1. DashboardTypeOK
  <2>1. minted = 0 /\ leaving \in [pc : {"no", "sent", "served"}, token : 0..0]
    BY DEF DashboardInit, NotLeaving
  <2>2. \A f \in Fetches : fetch[f].pc = "idle"
    BY DEF DashboardInit, NoFetch
  <2>3. /\ minted \in 0..MaxRefresh /\ liveTokens = {} /\ cookie \in 0..minted
        /\ leaving \in [pc : {"no", "sent", "served"}, token : 0..minted]
    BY <2>1, DashboardAssumption DEF DashboardInit
  <2>4. /\ stored = "none" /\ user \in BOOLEAN /\ serial \in BOOLEAN /\ quiet \in BOOLEAN
    BY DEF DashboardInit
  <2> QED
    BY <2>2, <2>3, <2>4 DEF DashboardTypeOK, Steps
<1>3. FetchesFit
  BY DEF DashboardInit, FetchesFit
<1>2. SerialFits /\ QuietFits
  BY DEF DashboardInit, SerialFits, QuietFits, Refreshing, NoFetch
<1> QED
  BY <1>1, <1>2, <1>3 DEF DashboardInv

LEMMA DashboardKept == DashboardInv /\ [DashboardNext]_dashboardVars => DashboardInv'
<1>1. CASE UNCHANGED dashboardVars
  BY <1>1 DEF dashboardVars, DashboardInv, DashboardTypeOK, FetchesFit, Asked, SerialFits,
              QuietFits, Refreshing
<1>2. CASE DashboardNext
  BY <1>2, DashboardTyped, SerialStep, QuietStep DEF DashboardInv
<1> QED
  BY <1>1, <1>2

LEMMA DashboardInvImplies == DashboardInv => SessionSafe
<1> SUFFICES ASSUME DashboardInv PROVE SessionSafe
  OBVIOUS
<1>0. minted \in Nat /\ liveTokens \subseteq 1..minted
  BY DashboardAssumption DEF DashboardInv, DashboardTypeOK
<1>1. SerialRefreshKeepsSession
  BY DEF DashboardInv, SerialFits, SerialRefreshKeepsSession
<1>2. SignOutEnds
  <2> SUFFICES ASSUME quiet, leaving = NotLeaving
               PROVE  cookie = 0 /\ stored = "none" /\ (\A t \in liveTokens : t < minted)
    BY DEF SignOutEnds
  <2>1. cookie = 0 /\ stored = "none" /\ minted \notin liveTokens
    BY DEF DashboardInv, QuietFits, NotLeaving
  <2> QED
    BY <1>0, <2>1
<1> QED
  BY <1>1, <1>2 DEF SessionSafe
-----------------------------------------------------------------------------
(* The schema: what a script does                                          *)

\* g is the run of the script s from db, and no statement of it is refused.
RunOf(db, s, g) ==
    /\ g[0] = db
    /\ \A i \in 1..Len(s) : Fits(g[i - 1], s[i]) /\ g[i] = Apply(g[i - 1], s[i])

Leads(db, s, e) == /\ \E T : s \in Seq(T)
                   /\ \E g : RunOf(db, s, g) /\ g[Len(s)] = e

\* What Walk computes is the run, if there is one.
LEMMA WalkIsRun ==
    ASSUME NEW db, NEW s, NEW e, Leads(db, s, e)
    PROVE  RunOf(db, s, Walk(db, s)) /\ Walk(db, s)[Len(s)] = e
<1>1. Len(s) \in Nat
  BY LenProperties DEF Leads
<1>2. PICK g : RunOf(db, s, g) /\ g[Len(s)] = e
  BY DEF Leads
<1> DEFINE n == Len(s)
           w == Walk(db, s)
           step(f, i) == IF i = 0 THEN db ELSE Apply(f[i - 1], s[i])
<1>3. w = [i \in 0..n |-> step(w, i)]
  <2> DEFINE h == [i \in 0..n |-> g[i]]
  <2>1. ASSUME NEW i \in 0..n
        PROVE  h[i] = step(h, i)
    <3>1. CASE i = 0
      BY <1>1, <1>2, <3>1 DEF RunOf
    <3>2. CASE i # 0
      <4>1. i \in 1..n /\ i - 1 \in 0..n
        BY <1>1, <3>2
      <4>2. g[i] = Apply(g[i - 1], s[i])
        BY <1>2, <4>1 DEF RunOf
      <4> QED BY <3>2, <4>1, <4>2
    <3> QED BY <3>1, <3>2
  <2>2. \E f : f = [i \in 0..n |-> step(f, i)]
    <3>1. h = [i \in 0..n |-> step(h, i)]
      BY <2>1
    <3> QED BY <3>1
  <2> QED BY <2>2, Zenon DEF Walk
<1> HIDE DEF w
<1>4. w[0] = db /\ \A i \in 1..n : w[i] = Apply(w[i - 1], s[i])
  <2>1. 0 \in 0..n /\ \A i \in 1..n : i \in 0..n /\ i # 0
    BY <1>1
  <2>2. \A i \in 0..n : w[i] = step(w, i)
    BY <1>3
  <2> QED BY <2>1, <2>2
<1>5. \A i \in 0..n : w[i] = g[i]
  <2> DEFINE Off == {i \in 0..n : w[i] # g[i]}
  <2> SUFFICES ASSUME Off # {} PROVE FALSE
    OBVIOUS
  <2>1. Off \in SUBSET Nat
    OBVIOUS
  <2>2. PICK i \in Off : \A j \in Off : i <= j
    BY <2>1, LeastElement
  <2>3. i # 0
    BY <1>2, <1>4 DEF RunOf
  <2>4. i \in 1..n /\ i - 1 \in 0..n /\ ~(i <= i - 1)
    BY <1>1, <2>3
  <2>5. w[i - 1] = g[i - 1]
    BY <2>2, <2>4
  <2> QED BY <1>2, <1>4, <2>4, <2>5 DEF RunOf
<1>6. n \in 0..n /\ \A i \in 1..n : i \in 0..n /\ i - 1 \in 0..n
  BY <1>1
<1> QED BY <1>2, <1>4, <1>5, <1>6 DEF RunOf, w

LEMMA NothingLeads == ASSUME NEW db PROVE Leads(db, <<>>, db)
<1> DEFINE g == [i \in {0} |-> db]
<1>1. Len(<<>>) = 0 /\ <<>> \in Seq({})
  BY EmptySeq, LenProperties
<1>2. RunOf(db, <<>>, g)
  BY <1>1 DEF RunOf
<1> QED BY <1>1, <1>2 DEF Leads

LEMMA StatementLeads ==
    ASSUME NEW db, NEW x, Fits(db, x)
    PROVE  Leads(db, <<x>>, Apply(db, x))
<1> DEFINE g == [i \in 0..1 |-> IF i = 0 THEN db ELSE Apply(db, x)]
<1>1. <<x>> \in Seq({x}) /\ Len(<<x>>) = 1 /\ <<x>>[1] = x
  OBVIOUS
<1>2. RunOf(db, <<x>>, g)
  <2>1. g[0] = db /\ g[1] = Apply(db, x)
    OBVIOUS
  <2> HIDE DEF g
  <2>2. \A i \in 1..1 : i = 1 /\ i - 1 = 0
    OBVIOUS
  <2> QED BY <1>1, <2>1, <2>2 DEF RunOf
<1>3. \E T : <<x>> \in Seq(T)
  BY <1>1
<1>4. g[Len(<<x>>)] = Apply(db, x)
  BY <1>1
<1> HIDE DEF g
<1> QED BY <1>2, <1>3, <1>4 DEF Leads

LEMMA ScriptsLeadOn ==
    ASSUME NEW a, NEW b, NEW c, NEW s, NEW t, Leads(a, s, b), Leads(b, t, c)
    PROVE  Leads(a, s \o t, c)
<1>1. PICK T : s \in Seq(T) /\ t \in Seq(T)
  <2>1. PICK V, W : s \in Seq(V) /\ t \in Seq(W)
    BY DEF Leads
  <2>2. s \in Seq(V \cup W) /\ t \in Seq(V \cup W)
    BY <2>1
  <2> QED BY <2>2
<1>2. PICK g : RunOf(a, s, g) /\ g[Len(s)] = b
  BY DEF Leads
<1>3. PICK h : RunOf(b, t, h) /\ h[Len(t)] = c
  BY DEF Leads
<1> DEFINE m == Len(s)
           n == Len(t)
           k == [i \in 0..(m + n) |-> IF i <= m THEN g[i] ELSE h[i - m]]
<1>4. m \in Nat /\ n \in Nat
  BY <1>1, LenProperties
<1>5. /\ s \o t \in Seq(T) /\ Len(s \o t) = m + n
      /\ \A i \in 1..(m + n) : (s \o t)[i] = IF i <= m THEN s[i] ELSE t[i - m]
  BY <1>1, ConcatProperties
<1>6. \A i \in 0..(m + n) : k[i] = IF i <= m THEN g[i] ELSE h[i - m]
  OBVIOUS
<1> HIDE DEF k
<1>7. RunOf(a, s \o t, k)
  <2>1. k[0] = a
    BY <1>2, <1>4, <1>6 DEF RunOf
  <2>2. ASSUME NEW i \in 1..(m + n)
        PROVE  Fits(k[i - 1], (s \o t)[i]) /\ k[i] = Apply(k[i - 1], (s \o t)[i])
    <3>1. CASE i <= m
      <4>1. i \in 1..m /\ i - 1 <= m /\ i - 1 \in 0..(m + n) /\ i \in 0..(m + n)
        BY <1>4, <3>1
      <4>2. k[i - 1] = g[i - 1] /\ k[i] = g[i] /\ (s \o t)[i] = s[i]
        BY <1>5, <1>6, <3>1, <4>1
      <4> QED BY <1>2, <4>1, <4>2 DEF RunOf
    <3>2. CASE ~(i <= m)
      <4>1. /\ i - m \in 1..n /\ i - 1 \in 0..(m + n) /\ i \in 0..(m + n)
            /\ (i - m) - 1 = (i - 1) - m
            /\ i - 1 <= m => i - 1 = m /\ (i - m) - 1 = 0
        BY <1>4, <3>2
      <4>2. k[i] = h[i - m] /\ (s \o t)[i] = t[i - m]
        BY <1>5, <1>6, <3>2, <4>1
      <4>3. k[i - 1] = h[(i - m) - 1]
        <5>1. CASE i - 1 <= m
          BY <1>2, <1>3, <1>6, <4>1, <5>1 DEF RunOf
        <5>2. CASE ~(i - 1 <= m)
          BY <1>6, <4>1, <5>2
        <5> QED BY <5>1, <5>2
      <4> QED BY <1>3, <4>1, <4>2, <4>3 DEF RunOf
    <3> QED BY <3>1, <3>2
  <2> QED BY <1>5, <2>1, <2>2 DEF RunOf
<1>8. k[m + n] = c
  <2>1. m + n \in 0..(m + n) /\ (m + n) - m = n /\ (m + n <= m => n = 0)
    BY <1>4
  <2>2. CASE m + n <= m
    BY <1>2, <1>3, <1>6, <2>1, <2>2 DEF RunOf
  <2>3. CASE ~(m + n <= m)
    BY <1>3, <1>6, <2>1, <2>3
  <2> QED BY <2>2, <2>3
<1> QED BY <1>5, <1>7, <1>8 DEF Leads

LEMMA Paired == ASSUME NEW x, NEW y PROVE <<x>> \o <<y>> = <<x, y>>
<1>1. <<x>> \in Seq({x, y}) /\ <<y>> \in Seq({x, y}) /\ Len(<<x>>) = 1 /\ Len(<<y>>) = 1
  OBVIOUS
<1> DEFINE z == <<x>> \o <<y>>
<1>2. /\ z \in Seq({x, y}) /\ Len(z) = 2
      /\ \A i \in 1..2 : z[i] = IF i <= 1 THEN <<x>>[i] ELSE <<y>>[i - 1]
  BY <1>1, ConcatProperties
<1> HIDE DEF z
<1>3. z[1] = x /\ z[2] = y
  BY <1>2
<1>4. z = [i \in 1..2 |-> z[i]]
  BY <1>2
<1>5. z = <<x, y>>
  BY <1>3, <1>4
<1> QED BY <1>5 DEF z

\* Part of the tables of a schema.
On(M, N) == [t \in N |-> M[t]]

\* A table fits when no table has its name and those it refers to are there.
LEMMA TableLeads ==
    ASSUME NEW M, NEW N, NEW t, NEW refs, NEW keys, NEW ix,
           t \notin N, \A r \in refs : r[1] \in N,
           M[t] = [refs |-> refs, keys |-> keys, ix |-> ix, cols |-> {}]
    PROVE  Leads(On(M, N), Table(t, refs, keys, ix), On(M, N \cup {t}))
<1> DEFINE x == Statement("create", t, refs, keys, {}, {})
           y == Statement("index", t, {}, {}, ix, {})
           db == On(M, N)
           bare == [refs |-> refs, keys |-> keys, ix |-> {}, cols |-> {}]
           mid == [u \in N \cup {t} |-> IF u = t THEN bare ELSE M[u]]
<1>2. Fits(db, x) /\ Apply(db, x) = mid
  BY DEF Fits, Apply, Statement, On
<1>3. Fits(mid, y) /\ Apply(mid, y) = On(M, N \cup {t})
  <2>1. mid[t] = bare /\ t \in DOMAIN mid
    OBVIOUS
  <2>2. Fits(mid, y)
    BY <2>1 DEF Fits, Statement
  <2>3. Apply(mid, y) = [mid EXCEPT ![t].ix = @ \cup ix]
    BY DEF Apply, Statement
  <2>4. [bare EXCEPT !.ix = @ \cup ix] = M[t]
    <3>1. bare.ix \cup ix = ix
      OBVIOUS
    <3>2. [bare EXCEPT !.ix = ix] = M[t]
      <4> DEFINE none == {}
      <4> HIDE DEF none
      <4>1. [[refs |-> refs, keys |-> keys, ix |-> none, cols |-> none] EXCEPT !.ix = ix]
              = [refs |-> refs, keys |-> keys, ix |-> ix, cols |-> none]
        OBVIOUS
      <4> QED BY <4>1 DEF none
    <3> HIDE DEF bare
    <3> QED BY <3>1, <3>2
  <2>5. [mid EXCEPT ![t].ix = @ \cup ix] = On(M, N \cup {t})
    BY <2>1, <2>4 DEF On
  <2> QED BY <2>2, <2>3, <2>5
<1> HIDE DEF db, x, y, mid
<1>4. Leads(db, <<x>>, mid) /\ Leads(mid, <<y>>, On(M, N \cup {t}))
  BY <1>2, <1>3, StatementLeads
<1>5. <<x>> \o <<y>> = Table(t, refs, keys, ix)
  BY Paired DEF Table, x, y
<1> QED BY <1>4, <1>5, ScriptsLeadOn DEF db

\* A table goes with its indexes when no table refers to it.
LEMMA NoTableLeads ==
    ASSUME NEW M, NEW N, NEW t, NEW ix,
           t \in N, ix \subseteq M[t].ix,
           \A u \in N : \A r \in M[u].refs : r[1] # t
    PROVE  Leads(On(M, N), NoTable(t, ix), On(M, N \ {t}))
<1> DEFINE x == Statement("unindex", t, {}, {}, ix, {})
           y == Statement("drop", t, {}, {}, {}, {})
           db == On(M, N)
           mid == [db EXCEPT ![t].ix = @ \ ix]
<1>2. Fits(db, x) /\ Apply(db, x) = mid
  BY DEF Fits, Apply, Statement, On
<1>3. Fits(mid, y) /\ Apply(mid, y) = On(M, N \ {t})
  <2>1. DOMAIN mid = N /\ \A u \in N : u # t => mid[u] = M[u]
    BY DEF On
  <2>2. \A u \in N : mid[u].refs = M[u].refs
    BY DEF On
  <2>3. Fits(mid, y)
    BY <2>1, <2>2 DEF Fits, Statement
  <2>4. Apply(mid, y) = [u \in N \ {t} |-> mid[u]]
    BY <2>1 DEF Apply, Statement
  <2> QED BY <2>1, <2>3, <2>4 DEF On
<1> HIDE DEF db, x, y, mid
<1>4. Leads(db, <<x>>, mid) /\ Leads(mid, <<y>>, On(M, N \ {t}))
  BY <1>2, <1>3, StatementLeads
<1>5. <<x>> \o <<y>> = NoTable(t, ix)
  BY Paired DEF NoTable, x, y
<1> QED BY <1>4, <1>5, ScriptsLeadOn DEF db

LEMMA DropLeads ==
    ASSUME NEW M, NEW N, NEW t, t \in N,
           \A u \in N : \A r \in M[u].refs : r[1] # t
    PROVE  Leads(On(M, N), <<Statement("drop", t, {}, {}, {}, {})>>, On(M, N \ {t}))
<1> DEFINE y == Statement("drop", t, {}, {}, {}, {})
<1>2. Fits(On(M, N), y) /\ Apply(On(M, N), y) = On(M, N \ {t})
  BY DEF Fits, Apply, Statement, On
<1> QED BY <1>2, StatementLeads

LEMMA References == \A t : Cascade(t)[1] = t /\ SetNull(t)[1] = t
BY DEF Cascade, SetNull-----------------------------------------------------------------------------
(* The schema: the tables of each revision                                 *)

JobTables == {"job", "audit_log"}

ObservableTables == {"domain", "evidence", "external_account", "ioc", "ip"}

MessageTables == {"message", "relationship"}

TelegramTables == {"telegram_account", "telegram_channel", "telegram_group", "url"}

UserTables == {"user", "username", "target"}

WorkspaceTables == {"report", "search", "watchlist", "search_result"}

TokenTables == {"refresh_token"}

InvestigationTables == {"investigation", "investigation_observation"}

Tables1 == JobTables
Tables2 == JobTables \cup ObservableTables \cup MessageTables \cup TelegramTables
           \cup UserTables \cup WorkspaceTables
Tables3 == Tables2 \cup TokenTables
Tables5 == Tables3 \cup InvestigationTables

\* The models without the columns of 0004.
Base == [Metadata EXCEPT !["user"].cols = {}]

Record(refs, keys, ix) == [refs |-> refs, keys |-> keys, ix |-> ix, cols |-> {}]

LEMMA MetadataIs ==
    /\ DOMAIN Metadata = Tables5
    /\ Metadata["job"] = JobModel
    /\ Metadata["audit_log"] = AuditModel
    /\ Metadata["domain"] = DomainModel
    /\ Metadata["evidence"] = EvidenceModel
    /\ Metadata["external_account"] = ExternalAccountModel
    /\ Metadata["ioc"] = IocModel
    /\ Metadata["ip"] = IpModel
    /\ Metadata["message"] = MessageModel
    /\ Metadata["relationship"] = RelationshipModel
    /\ Metadata["telegram_account"] = TelegramModel
    /\ Metadata["telegram_channel"] = TelegramModel
    /\ Metadata["telegram_group"] = TelegramModel
    /\ Metadata["url"] = UrlModel
    /\ Metadata["user"] = UserModel
    /\ Metadata["username"] = UsernameModel
    /\ Metadata["target"] = TargetModel
    /\ Metadata["report"] = ReportModel
    /\ Metadata["search"] = SearchModel
    /\ Metadata["watchlist"] = WatchlistModel
    /\ Metadata["search_result"] = SearchResultModel
    /\ Metadata["refresh_token"] = TokenModel
    /\ Metadata["investigation"] = InvestigationModel
    /\ Metadata["investigation_observation"] = ObservationModel
<1>1. DOMAIN Metadata = Tables5
  BY DEF Metadata, Tables5, Tables3, Tables2, JobTables, ObservableTables, MessageTables,
         TelegramTables, UserTables, WorkspaceTables, TokenTables, InvestigationTables
<1> QED BY <1>1 DEF Metadata

LEMMA BaseJobTables ==
    ASSUME NEW M \in {Base, Metadata}
    PROVE  /\ M["job"] = Record({}, {}, {"state_kind", "requested_by", "created_at"})
           /\ M["audit_log"] = Record({}, {}, {"actor", "action", "resource", "created_at"})
<1>1. \A t \in JobTables \ {"user"} : M[t] = Metadata[t]
  BY MetadataIs DEF Base, JobTables, Tables5, Tables3, Tables2
<1>3. JobModel = Record({}, {}, {"state_kind", "requested_by", "created_at"})
  BY DEF JobModel, Record, Model, Cascade, SetNull
<1>4. AuditModel = Record({}, {}, {"actor", "action", "resource", "created_at"})
  BY DEF AuditModel, Record, Model, Cascade, SetNull
<1> QED BY <1>1, <1>3, <1>4, MetadataIs DEF JobTables

LEMMA BaseObservableTables ==
    ASSUME NEW M \in {Base, Metadata}
    PROVE  /\ M["domain"] = Record({}, {{"name_normalized"}}, {"name_normalized"})
           /\ M["evidence"] = Record({}, {{"entity_type", "entity_id", "field", "source",
                          "content_hash"}}, {"collected_at", "content_hash",
                          "entity", "observed_at", "source"})
           /\ M["external_account"] = Record({}, {{"platform", "identifier_normalized"}},
                          {"identifier_normalized"})
           /\ M["ioc"] = Record({}, {{"ioc_type", "value_normalized"}}, {"type",
                          "value_normalized"})
           /\ M["ip"] = Record({}, {{"address"}}, {"address"})
<1>1. \A t \in ObservableTables \ {"user"} : M[t] = Metadata[t]
  BY MetadataIs DEF Base, ObservableTables, Tables5, Tables3, Tables2
<1>3. DomainModel = Record({}, {{"name_normalized"}}, {"name_normalized"})
  BY DEF DomainModel, Record, Model, Cascade, SetNull
<1>4. EvidenceModel = Record({}, {{"entity_type", "entity_id", "field", "source",
               "content_hash"}}, {"collected_at", "content_hash", "entity",
               "observed_at", "source"})
  BY DEF EvidenceModel, Record, Model, Cascade, SetNull
<1>5. ExternalAccountModel = Record({}, {{"platform", "identifier_normalized"}},
               {"identifier_normalized"})
  BY DEF ExternalAccountModel, Record, Model, Cascade, SetNull
<1>6. IocModel = Record({}, {{"ioc_type", "value_normalized"}}, {"type",
               "value_normalized"})
  BY DEF IocModel, Record, Model, Cascade, SetNull
<1>7. IpModel = Record({}, {{"address"}}, {"address"})
  BY DEF IpModel, Record, Model, Cascade, SetNull
<1> QED BY <1>1, <1>3, <1>4, <1>5, <1>6, <1>7, MetadataIs DEF ObservableTables

LEMMA BaseMessageTables ==
    ASSUME NEW M \in {Base, Metadata}
    PROVE  /\ M["message"] = Record({}, {{"source_type", "source_id", "message_id"}},
                          {"author_account_id", "message_id", "posted_at",
                          "source"})
           /\ M["relationship"] = Record({}, {{"source_type", "source_id", "target_type",
                          "target_id", "rel_type"}}, {"last_seen", "rel_type",
                          "source", "target"})
<1>1. \A t \in MessageTables \ {"user"} : M[t] = Metadata[t]
  BY MetadataIs DEF Base, MessageTables, Tables5, Tables3, Tables2
<1>3. MessageModel = Record({}, {{"source_type", "source_id", "message_id"}},
               {"author_account_id", "message_id", "posted_at", "source"})
  BY DEF MessageModel, Record, Model, Cascade, SetNull
<1>4. RelationshipModel = Record({}, {{"source_type", "source_id", "target_type",
               "target_id", "rel_type"}}, {"last_seen", "rel_type", "source",
               "target"})
  BY DEF RelationshipModel, Record, Model, Cascade, SetNull
<1> QED BY <1>1, <1>3, <1>4, MetadataIs DEF MessageTables

LEMMA BaseTelegramTables ==
    ASSUME NEW M \in {Base, Metadata}
    PROVE  /\ M["telegram_account"] = Record({}, {{"telegram_id"}}, {"telegram_id",
                          "username_normalized"})
           /\ M["telegram_channel"] = Record({}, {{"telegram_id"}}, {"telegram_id",
                          "username_normalized"})
           /\ M["telegram_group"] = Record({}, {{"telegram_id"}}, {"telegram_id",
                          "username_normalized"})
           /\ M["url"] = Record({}, {{"url_hash"}}, {"hash", "host"})
<1>1. \A t \in TelegramTables \ {"user"} : M[t] = Metadata[t]
  BY MetadataIs DEF Base, TelegramTables, Tables5, Tables3, Tables2
<1>3. TelegramModel = Record({}, {{"telegram_id"}}, {"telegram_id",
               "username_normalized"})
  BY DEF TelegramModel, Record, Model, Cascade, SetNull
<1>4. TelegramModel = Record({}, {{"telegram_id"}}, {"telegram_id",
               "username_normalized"})
  BY DEF TelegramModel, Record, Model, Cascade, SetNull
<1>5. TelegramModel = Record({}, {{"telegram_id"}}, {"telegram_id",
               "username_normalized"})
  BY DEF TelegramModel, Record, Model, Cascade, SetNull
<1>6. UrlModel = Record({}, {{"url_hash"}}, {"hash", "host"})
  BY DEF UrlModel, Record, Model, Cascade, SetNull
<1> QED BY <1>1, <1>3, <1>4, <1>5, <1>6, MetadataIs DEF TelegramTables

LEMMA BaseUserTables ==
    ASSUME NEW M \in {Base, Metadata}
    PROVE  /\ Base["user"] = Record({}, {{"email"}}, {"role", "telegram_user_id"})
           /\ M["username"] = Record({}, {{"platform", "value_normalized"}},
                          {"value_normalized"})
           /\ M["target"] = Record({Cascade("user")}, {{"user_id", "kind",
                          "value_normalized"}}, {"user_id", "value_normalized"})
<1>1. \A t \in UserTables \ {"user"} : M[t] = Metadata[t]
  BY MetadataIs DEF Base, UserTables, Tables5, Tables3, Tables2
<1>2. Base["user"] = [UserModel EXCEPT !.cols = {}]
  BY MetadataIs DEF Base, UserTables, Tables5, Tables3, Tables2
<1>3. [UserModel EXCEPT !.cols = {}] = Record({}, {{"email"}}, {"role", "telegram_user_id"})
  <2> DEFINE plain == Model({}, {{"email"}}, {"telegram_user_id", "role"})
             none == {}
  <2>1. plain = Record({}, {{"email"}}, {"role", "telegram_user_id"})
    BY DEF Record, Model
  <2>2. plain = [refs |-> {}, keys |-> {{"email"}}, ix |-> {"telegram_user_id", "role"},
                 cols |-> none]
    BY DEF Model
  <2>3. UserModel = [plain EXCEPT !.cols = FreeTier]
    BY DEF UserModel, FreeTier
  <2> HIDE DEF none
  <2>4. [UserModel EXCEPT !.cols = none] = plain
    <3> DEFINE keys == {{"email"}}
               ix == {"telegram_user_id", "role"}
               refs == {}
    <3>1. plain = [refs |-> refs, keys |-> keys, ix |-> ix, cols |-> none]
      BY <2>2
    <3> HIDE DEF plain, keys, ix, refs
    <3>2. UserModel = [refs |-> refs, keys |-> keys, ix |-> ix, cols |-> FreeTier]
      BY ONLY <2>3, <3>1
    <3>3. [UserModel EXCEPT !.cols = none] = [refs |-> refs, keys |-> keys, ix |-> ix, cols |-> none]
      BY ONLY <3>2
    <3> QED BY ONLY <3>1, <3>3
  <2> QED BY <2>1, <2>4 DEF none
<1>4. UsernameModel = Record({}, {{"platform", "value_normalized"}},
               {"value_normalized"})
  BY DEF UsernameModel, Record, Model, Cascade, SetNull
<1>5. TargetModel = Record({Cascade("user")}, {{"user_id", "kind",
               "value_normalized"}}, {"user_id", "value_normalized"})
  BY DEF TargetModel, Record, Model, Cascade, SetNull
<1> QED BY <1>1, <1>2, <1>3, <1>4, <1>5, MetadataIs DEF UserTables

LEMMA BaseWorkspaceTables ==
    ASSUME NEW M \in {Base, Metadata}
    PROVE  /\ M["report"] = Record({SetNull("job"), SetNull("target"), Cascade("user")}, {},
                          {"created_at", "status", "target_id", "user_id"})
           /\ M["search"] = Record({SetNull("job"), SetNull("target"), Cascade("user")}, {},
                          {"created_at", "target_id", "user_id"})
           /\ M["watchlist"] = Record({Cascade("target"), Cascade("user")}, {{"user_id",
                          "kind", "value_normalized"}}, {"active", "user_id"})
           /\ M["search_result"] = Record({Cascade("search")}, {}, {"entity", "search_id"})
<1>1. \A t \in WorkspaceTables \ {"user"} : M[t] = Metadata[t]
  BY MetadataIs DEF Base, WorkspaceTables, Tables5, Tables3, Tables2
<1>3. ReportModel = Record({SetNull("job"), SetNull("target"), Cascade("user")}, {},
               {"created_at", "status", "target_id", "user_id"})
  BY DEF ReportModel, Record, Model, Cascade, SetNull
<1>4. SearchModel = Record({SetNull("job"), SetNull("target"), Cascade("user")}, {},
               {"created_at", "target_id", "user_id"})
  BY DEF SearchModel, Record, Model, Cascade, SetNull
<1>5. WatchlistModel = Record({Cascade("target"), Cascade("user")}, {{"user_id",
               "kind", "value_normalized"}}, {"active", "user_id"})
  BY DEF WatchlistModel, Record, Model, Cascade, SetNull
<1>6. SearchResultModel = Record({Cascade("search")}, {}, {"entity", "search_id"})
  BY DEF SearchResultModel, Record, Model, Cascade, SetNull
<1> QED BY <1>1, <1>3, <1>4, <1>5, <1>6, MetadataIs DEF WorkspaceTables

LEMMA BaseTokenTables ==
    ASSUME NEW M \in {Base, Metadata}
    PROVE  /\ M["refresh_token"] = Record({Cascade("user")}, {{"token_hash"}}, {"user_id"})
<1>1. \A t \in TokenTables \ {"user"} : M[t] = Metadata[t]
  BY MetadataIs DEF Base, TokenTables, Tables5, Tables3, Tables2
<1>3. TokenModel = Record({Cascade("user")}, {{"token_hash"}}, {"user_id"})
  BY DEF TokenModel, Record, Model, Cascade, SetNull
<1> QED BY <1>1, <1>3, MetadataIs DEF TokenTables

LEMMA BaseInvestigationTables ==
    ASSUME NEW M \in {Base, Metadata}
    PROVE  /\ M["investigation"] = Record({Cascade("user"), SetNull("job"),
                          SetNull("report")}, {{"public_id"}}, {"user_id",
                          "target_normalized", "status", "created_at"})
           /\ M["investigation_observation"] = Record({Cascade("investigation")}, {},
                          {"investigation_id", "type", "observed_at"})
<1>1. \A t \in InvestigationTables \ {"user"} : M[t] = Metadata[t]
  BY MetadataIs DEF Base, InvestigationTables, Tables5, Tables3, Tables2
<1>3. InvestigationModel = Record({Cascade("user"), SetNull("job"),
               SetNull("report")}, {{"public_id"}}, {"user_id",
               "target_normalized", "status", "created_at"})
  BY DEF InvestigationModel, Record, Model, Cascade, SetNull
<1>4. ObservationModel = Record({Cascade("investigation")}, {}, {"investigation_id",
               "type", "observed_at"})
  BY DEF ObservationModel, Record, Model, Cascade, SetNull
<1> QED BY <1>1, <1>3, <1>4, MetadataIs DEF InvestigationTables
-----------------------------------------------------------------------------
(* The schema: what each revision's statements do                          *)

LEMMA JobsLead ==
    ASSUME NEW N, N \cap JobTables = {}
    PROVE  Leads(On(Base, N), Up0001, On(Base, N \cup JobTables))
<1> DEFINE N1 == N \cup {"job"}
           N2 == N1 \cup {"audit_log"}
<1>1. Leads(On(Base, N), Table("job", {}, {}, {"state_kind", "requested_by",
          "created_at"}), On(Base, N1))
  BY TableLeads, BaseJobTables DEF Record, JobTables
<1>2. Leads(On(Base, N1), Table("audit_log", {}, {}, {"actor", "action",
          "resource", "created_at"}), On(Base, N2))
  BY TableLeads, BaseJobTables DEF Record, JobTables
<1>3. N2 = N \cup JobTables
  BY DEF JobTables
<1> HIDE DEF N1, N2
<1> QED BY <1>1, <1>2, <1>3, ScriptsLeadOn DEF Up0001

LEMMA ObservablesLead ==
    ASSUME NEW N, N \cap ObservableTables = {}
    PROVE  Leads(On(Base, N), UpObservables, On(Base, N \cup ObservableTables))
<1> DEFINE N1 == N \cup {"domain"}
           N2 == N1 \cup {"evidence"}
           N3 == N2 \cup {"external_account"}
           N4 == N3 \cup {"ioc"}
           N5 == N4 \cup {"ip"}
<1>1. Leads(On(Base, N), Table("domain", {}, {{"name_normalized"}},
          {"name_normalized"}), On(Base, N1))
  BY TableLeads, BaseObservableTables DEF Record, ObservableTables
<1>2. Leads(On(Base, N1), Table("evidence", {}, {{"entity_type", "entity_id",
          "field", "source", "content_hash"}}, {"collected_at", "content_hash",
          "entity", "observed_at", "source"}), On(Base, N2))
  BY TableLeads, BaseObservableTables DEF Record, ObservableTables
<1>3. Leads(On(Base, N2), Table("external_account", {}, {{"platform",
          "identifier_normalized"}}, {"identifier_normalized"}), On(Base, N3))
  BY TableLeads, BaseObservableTables DEF Record, ObservableTables
<1>4. Leads(On(Base, N3), Table("ioc", {}, {{"ioc_type", "value_normalized"}},
          {"type", "value_normalized"}), On(Base, N4))
  BY TableLeads, BaseObservableTables DEF Record, ObservableTables
<1>5. Leads(On(Base, N4), Table("ip", {}, {{"address"}}, {"address"}), On(Base, N5))
  BY TableLeads, BaseObservableTables DEF Record, ObservableTables
<1>6. N5 = N \cup ObservableTables
  BY DEF ObservableTables
<1> HIDE DEF N1, N2, N3, N4, N5
<1> QED BY <1>1, <1>2, <1>3, <1>4, <1>5, <1>6, ScriptsLeadOn DEF UpObservables

LEMMA MessagesLead ==
    ASSUME NEW N, N \cap MessageTables = {}
    PROVE  Leads(On(Base, N), UpMessages, On(Base, N \cup MessageTables))
<1> DEFINE N1 == N \cup {"message"}
           N2 == N1 \cup {"relationship"}
<1>1. Leads(On(Base, N), Table("message", {}, {{"source_type", "source_id",
          "message_id"}}, {"author_account_id", "message_id", "posted_at",
          "source"}), On(Base, N1))
  BY TableLeads, BaseMessageTables DEF Record, MessageTables
<1>2. Leads(On(Base, N1), Table("relationship", {}, {{"source_type", "source_id",
          "target_type", "target_id", "rel_type"}}, {"last_seen", "rel_type",
          "source", "target"}), On(Base, N2))
  BY TableLeads, BaseMessageTables DEF Record, MessageTables
<1>3. N2 = N \cup MessageTables
  BY DEF MessageTables
<1> HIDE DEF N1, N2
<1> QED BY <1>1, <1>2, <1>3, ScriptsLeadOn DEF UpMessages

LEMMA TelegramLeads ==
    ASSUME NEW N, N \cap TelegramTables = {}
    PROVE  Leads(On(Base, N), UpTelegram, On(Base, N \cup TelegramTables))
<1> DEFINE N1 == N \cup {"telegram_account"}
           N2 == N1 \cup {"telegram_channel"}
           N3 == N2 \cup {"telegram_group"}
           N4 == N3 \cup {"url"}
<1>1. Leads(On(Base, N), Table("telegram_account", {}, {{"telegram_id"}},
          {"telegram_id", "username_normalized"}), On(Base, N1))
  BY TableLeads, BaseTelegramTables DEF Record, TelegramTables
<1>2. Leads(On(Base, N1), Table("telegram_channel", {}, {{"telegram_id"}},
          {"telegram_id", "username_normalized"}), On(Base, N2))
  BY TableLeads, BaseTelegramTables DEF Record, TelegramTables
<1>3. Leads(On(Base, N2), Table("telegram_group", {}, {{"telegram_id"}},
          {"telegram_id", "username_normalized"}), On(Base, N3))
  BY TableLeads, BaseTelegramTables DEF Record, TelegramTables
<1>4. Leads(On(Base, N3), Table("url", {}, {{"url_hash"}}, {"hash", "host"}),
          On(Base, N4))
  BY TableLeads, BaseTelegramTables DEF Record, TelegramTables
<1>5. N4 = N \cup TelegramTables
  BY DEF TelegramTables
<1> HIDE DEF N1, N2, N3, N4
<1> QED BY <1>1, <1>2, <1>3, <1>4, <1>5, ScriptsLeadOn DEF UpTelegram

LEMMA UsersLead ==
    ASSUME NEW N, N \cap UserTables = {}
    PROVE  Leads(On(Base, N), UpUsers, On(Base, N \cup UserTables))
<1> DEFINE N1 == N \cup {"user"}
           N2 == N1 \cup {"username"}
           N3 == N2 \cup {"target"}
<1>1. Leads(On(Base, N), Table("user", {}, {{"email"}}, {"role",
          "telegram_user_id"}), On(Base, N1))
  BY TableLeads, BaseUserTables DEF Record, UserTables
<1>2. Leads(On(Base, N1), Table("username", {}, {{"platform", "value_normalized"}},
          {"value_normalized"}), On(Base, N2))
  BY TableLeads, BaseUserTables DEF Record, UserTables
<1>3. Leads(On(Base, N2), Table("target", {Cascade("user")}, {{"user_id", "kind",
          "value_normalized"}}, {"user_id", "value_normalized"}), On(Base, N3))
  <2>1. \A r \in {Cascade("user")} : r[1] \in N2
    BY References
  <2> QED BY <2>1, TableLeads, BaseUserTables DEF Record, UserTables
<1>4. N3 = N \cup UserTables
  BY DEF UserTables
<1> HIDE DEF N1, N2, N3
<1> QED BY <1>1, <1>2, <1>3, <1>4, ScriptsLeadOn DEF UpUsers

LEMMA WorkspaceLeads ==
    ASSUME NEW N, N \cap WorkspaceTables = {},
           {"user", "target", "job"} \subseteq N
    PROVE  Leads(On(Base, N), UpWorkspace, On(Base, N \cup WorkspaceTables))
<1> DEFINE N1 == N \cup {"report"}
           N2 == N1 \cup {"search"}
           N3 == N2 \cup {"watchlist"}
           N4 == N3 \cup {"search_result"}
<1>1. Leads(On(Base, N), Table("report", {SetNull("job"), SetNull("target"),
          Cascade("user")}, {}, {"created_at", "status", "target_id", "user_id"}),
          On(Base, N1))
  <2>1. \A r \in {SetNull("job"), SetNull("target"), Cascade("user")} : r[1] \in N
    BY References
  <2> QED BY <2>1, TableLeads, BaseWorkspaceTables DEF Record, WorkspaceTables
<1>2. Leads(On(Base, N1), Table("search", {SetNull("job"), SetNull("target"),
          Cascade("user")}, {}, {"created_at", "target_id", "user_id"}), On(Base,
          N2))
  <2>1. \A r \in {SetNull("job"), SetNull("target"), Cascade("user")} : r[1] \in N1
    BY References
  <2> QED BY <2>1, TableLeads, BaseWorkspaceTables DEF Record, WorkspaceTables
<1>3. Leads(On(Base, N2), Table("watchlist", {Cascade("target"), Cascade("user")},
          {{"user_id", "kind", "value_normalized"}}, {"active", "user_id"}),
          On(Base, N3))
  <2>1. \A r \in {Cascade("target"), Cascade("user")} : r[1] \in N2
    BY References
  <2> QED BY <2>1, TableLeads, BaseWorkspaceTables DEF Record, WorkspaceTables
<1>4. Leads(On(Base, N3), Table("search_result", {Cascade("search")}, {},
          {"entity", "search_id"}), On(Base, N4))
  <2>1. \A r \in {Cascade("search")} : r[1] \in N3
    BY References
  <2> QED BY <2>1, TableLeads, BaseWorkspaceTables DEF Record, WorkspaceTables
<1>5. N4 = N \cup WorkspaceTables
  BY DEF WorkspaceTables
<1> HIDE DEF N1, N2, N3, N4
<1> QED BY <1>1, <1>2, <1>3, <1>4, <1>5, ScriptsLeadOn DEF UpWorkspace

LEMMA TokensLead ==
    ASSUME NEW N, N \cap TokenTables = {},
           "user" \in N
    PROVE  Leads(On(Base, N), Up0003, On(Base, N \cup TokenTables))
<1> DEFINE N1 == N \cup {"refresh_token"}
<1>1. Leads(On(Base, N), Table("refresh_token", {Cascade("user")},
          {{"token_hash"}}, {"user_id"}), On(Base, N1))
  <2>1. \A r \in {Cascade("user")} : r[1] \in N
    BY References
  <2> QED BY <2>1, TableLeads, BaseTokenTables DEF Record, TokenTables
<1>2. N1 = N \cup TokenTables
  BY DEF TokenTables
<1> HIDE DEF N1
<1> QED BY <1>1, <1>2, ScriptsLeadOn DEF Up0003

LEMMA InvestigationsLead ==
    ASSUME NEW N, N \cap InvestigationTables = {},
           {"user", "job", "report"} \subseteq N
    PROVE  Leads(On(Metadata, N), Up0005, On(Metadata, N \cup InvestigationTables))
<1> DEFINE N1 == N \cup {"investigation"}
           N2 == N1 \cup {"investigation_observation"}
<1>1. Leads(On(Metadata, N), Table("investigation", {Cascade("user"),
          SetNull("job"), SetNull("report")}, {{"public_id"}}, {"user_id",
          "target_normalized", "status", "created_at"}), On(Metadata, N1))
  <2>1. \A r \in {Cascade("user"), SetNull("job"), SetNull("report")} : r[1] \in N
    BY References
  <2> QED BY <2>1, TableLeads, BaseInvestigationTables DEF Record, InvestigationTables
<1>2. Leads(On(Metadata, N1), Table("investigation_observation",
          {Cascade("investigation")}, {}, {"investigation_id", "type",
          "observed_at"}), On(Metadata, N2))
  <2>1. \A r \in {Cascade("investigation")} : r[1] \in N1
    BY References
  <2> QED BY <2>1, TableLeads, BaseInvestigationTables DEF Record, InvestigationTables
<1>3. N2 = N \cup InvestigationTables
  BY DEF InvestigationTables
<1> HIDE DEF N1, N2
<1> QED BY <1>1, <1>2, <1>3, ScriptsLeadOn DEF Up0005
LEMMA UserIs ==
    ASSUME NEW M \in {Base, Metadata}
    PROVE  M["user"].refs = {} /\ M["user"].ix = {"role", "telegram_user_id"}
<1>1. Base["user"].refs = {} /\ Base["user"].ix = {"role", "telegram_user_id"}
  BY BaseUserTables DEF Record
<1>2. UserModel.refs = {} /\ UserModel.ix = {"role", "telegram_user_id"}
  BY DEF UserModel, Model
<1> QED BY <1>1, <1>2, MetadataIs

\* Which tables refer to which.
LEMMA RefersTo ==
    ASSUME NEW M \in {Base, Metadata}, NEW u \in Tables5, NEW r \in M[u].refs
    PROVE  \/ u \in {"target", "refresh_token"} /\ r[1] = "user"
           \/ u \in {"report", "search"} /\ r[1] \in {"job", "target", "user"}
           \/ u = "watchlist" /\ r[1] \in {"target", "user"}
           \/ u = "search_result" /\ r[1] = "search"
           \/ u = "investigation" /\ r[1] \in {"user", "job", "report"}
           \/ u = "investigation_observation" /\ r[1] = "investigation"

<1>1. CASE u \in JobTables
  <2>1. CASE u = "job"
    BY <2>1, BaseJobTables DEF Record
  <2>2. CASE u = "audit_log"
    BY <2>2, BaseJobTables DEF Record
  <2> QED BY <1>1, <2>1, <2>2 DEF JobTables
<1>2. CASE u \in ObservableTables
  <2>1. CASE u = "domain"
    BY <2>1, BaseObservableTables DEF Record
  <2>2. CASE u = "evidence"
    BY <2>2, BaseObservableTables DEF Record
  <2>3. CASE u = "external_account"
    BY <2>3, BaseObservableTables DEF Record
  <2>4. CASE u = "ioc"
    BY <2>4, BaseObservableTables DEF Record
  <2>5. CASE u = "ip"
    BY <2>5, BaseObservableTables DEF Record
  <2> QED BY <1>2, <2>1, <2>2, <2>3, <2>4, <2>5 DEF ObservableTables
<1>3. CASE u \in MessageTables
  <2>1. CASE u = "message"
    BY <2>1, BaseMessageTables DEF Record
  <2>2. CASE u = "relationship"
    BY <2>2, BaseMessageTables DEF Record
  <2> QED BY <1>3, <2>1, <2>2 DEF MessageTables
<1>4. CASE u \in TelegramTables
  <2>1. CASE u = "telegram_account"
    BY <2>1, BaseTelegramTables DEF Record
  <2>2. CASE u = "telegram_channel"
    BY <2>2, BaseTelegramTables DEF Record
  <2>3. CASE u = "telegram_group"
    BY <2>3, BaseTelegramTables DEF Record
  <2>4. CASE u = "url"
    BY <2>4, BaseTelegramTables DEF Record
  <2> QED BY <1>4, <2>1, <2>2, <2>3, <2>4 DEF TelegramTables
<1>5. CASE u \in UserTables
  <2>1. CASE u = "user"
    BY <2>1, UserIs DEF Record
  <2>2. CASE u = "username"
    BY <2>2, BaseUserTables DEF Record
  <2>3. CASE u = "target"
    BY <2>3, BaseUserTables, References DEF Record
  <2> QED BY <1>5, <2>1, <2>2, <2>3 DEF UserTables
<1>6. CASE u \in WorkspaceTables
  <2>1. CASE u = "report"
    BY <2>1, BaseWorkspaceTables, References DEF Record
  <2>2. CASE u = "search"
    BY <2>2, BaseWorkspaceTables, References DEF Record
  <2>3. CASE u = "watchlist"
    BY <2>3, BaseWorkspaceTables, References DEF Record
  <2>4. CASE u = "search_result"
    BY <2>4, BaseWorkspaceTables, References DEF Record
  <2> QED BY <1>6, <2>1, <2>2, <2>3, <2>4 DEF WorkspaceTables
<1>7. CASE u \in TokenTables
  <2>1. CASE u = "refresh_token"
    BY <2>1, BaseTokenTables, References DEF Record
  <2> QED BY <1>7, <2>1 DEF TokenTables
<1>8. CASE u \in InvestigationTables
  <2>1. CASE u = "investigation"
    BY <2>1, BaseInvestigationTables, References DEF Record
  <2>2. CASE u = "investigation_observation"
    BY <2>2, BaseInvestigationTables, References DEF Record
  <2> QED BY <1>8, <2>1, <2>2 DEF InvestigationTables
<1> QED BY <1>1, <1>2, <1>3, <1>4, <1>5, <1>6, <1>7, <1>8 DEF Tables5, Tables3, Tables2

LEMMA Down0002Leads == Leads(On(Base, Tables2), Down0002, On(Base, Tables1))
<1> DEFINE N1 == Tables2 \ {"search_result"}
           N2 == N1 \ {"watchlist"}
           N3 == N2 \ {"search"}
           N4 == N3 \ {"report"}
           N5 == N4 \ {"target"}
           N6 == N5 \ {"username"}
           N7 == N6 \ {"user"}
           N8 == N7 \ {"url"}
           N9 == N8 \ {"telegram_group"}
           N10 == N9 \ {"telegram_channel"}
           N11 == N10 \ {"telegram_account"}
           N12 == N11 \ {"relationship"}
           N13 == N12 \ {"message"}
           N14 == N13 \ {"ip"}
           N15 == N14 \ {"ioc"}
           N16 == N15 \ {"external_account"}
           N17 == N16 \ {"evidence"}
           N18 == N17 \ {"domain"}
<1>0. /\ Tables2 \subseteq Tables5
      /\ "search_result" \in Tables2
      /\ {"search_result", "watchlist", "search", "report", "target", "username",
          "user", "url", "telegram_group", "telegram_channel", "telegram_account",
          "relationship", "message", "ip", "ioc", "external_account", "evidence",
          "domain"} \subseteq Tables2
      /\ "refresh_token" \notin Tables2 /\ "investigation" \notin Tables2
  BY DEF Tables5, Tables3, Tables2, JobTables, ObservableTables, MessageTables,
         TelegramTables, UserTables, WorkspaceTables, TokenTables, InvestigationTables
<1>1. Leads(On(Base, Tables2), NoTable("search_result", {"search_id", "entity"}),
          On(Base, N1))
  <2>1. \A u \in Tables2 : \A r \in Base[u].refs : r[1] # "search_result"
    BY <1>0, RefersTo
  <2>2. "search_result" \in Tables2
    BY <1>0
  <2>3. {"search_id", "entity"} \subseteq Base["search_result"].ix
    BY BaseWorkspaceTables DEF Record
  <2> QED BY <2>1, <2>2, <2>3, NoTableLeads
<1>2. Leads(On(Base, N1), NoTable("watchlist", {"user_id", "active"}), On(Base, N2))
  <2>1. \A u \in N1 : \A r \in Base[u].refs : r[1] # "watchlist"
    BY <1>0, RefersTo
  <2>2. "watchlist" \in N1
    BY <1>0
  <2>3. {"user_id", "active"} \subseteq Base["watchlist"].ix
    BY BaseWorkspaceTables DEF Record
  <2> QED BY <2>1, <2>2, <2>3, NoTableLeads
<1>3. Leads(On(Base, N2), NoTable("search", {"user_id", "target_id",
          "created_at"}), On(Base, N3))
  <2>1. \A u \in N2 : \A r \in Base[u].refs : r[1] # "search"
    BY <1>0, RefersTo
  <2>2. "search" \in N2
    BY <1>0
  <2>3. {"user_id", "target_id", "created_at"} \subseteq Base["search"].ix
    BY BaseWorkspaceTables DEF Record
  <2> QED BY <2>1, <2>2, <2>3, NoTableLeads
<1>4. Leads(On(Base, N3), NoTable("report", {"user_id", "target_id", "status",
          "created_at"}), On(Base, N4))
  <2>1. \A u \in N3 : \A r \in Base[u].refs : r[1] # "report"
    BY <1>0, RefersTo
  <2>2. "report" \in N3
    BY <1>0
  <2>3. {"user_id", "target_id", "status", "created_at"} \subseteq Base["report"].ix
    BY BaseWorkspaceTables DEF Record
  <2> QED BY <2>1, <2>2, <2>3, NoTableLeads
<1>5. Leads(On(Base, N4), NoTable("target", {"value_normalized", "user_id"}),
          On(Base, N5))
  <2>1. \A u \in N4 : \A r \in Base[u].refs : r[1] # "target"
    BY <1>0, RefersTo
  <2>2. "target" \in N4
    BY <1>0
  <2>3. {"value_normalized", "user_id"} \subseteq Base["target"].ix
    BY BaseUserTables DEF Record
  <2> QED BY <2>1, <2>2, <2>3, NoTableLeads
<1>6. Leads(On(Base, N5), NoTable("username", {"value_normalized"}), On(Base, N6))
  <2>1. \A u \in N5 : \A r \in Base[u].refs : r[1] # "username"
    BY <1>0, RefersTo
  <2>2. "username" \in N5
    BY <1>0
  <2>3. {"value_normalized"} \subseteq Base["username"].ix
    BY BaseUserTables DEF Record
  <2> QED BY <2>1, <2>2, <2>3, NoTableLeads
<1>7. Leads(On(Base, N6), NoTable("user", {"telegram_user_id", "role"}), On(Base,
          N7))
  <2>1. \A u \in N6 : \A r \in Base[u].refs : r[1] # "user"
    BY <1>0, RefersTo
  <2>2. "user" \in N6
    BY <1>0
  <2>3. {"telegram_user_id", "role"} \subseteq Base["user"].ix
    BY UserIs DEF Record
  <2> QED BY <2>1, <2>2, <2>3, NoTableLeads
<1>8. Leads(On(Base, N7), NoTable("url", {"host", "hash"}), On(Base, N8))
  <2>1. \A u \in N7 : \A r \in Base[u].refs : r[1] # "url"
    BY <1>0, RefersTo
  <2>2. "url" \in N7
    BY <1>0
  <2>3. {"host", "hash"} \subseteq Base["url"].ix
    BY BaseTelegramTables DEF Record
  <2> QED BY <2>1, <2>2, <2>3, NoTableLeads
<1>9. Leads(On(Base, N8), NoTable("telegram_group", {"username_normalized",
          "telegram_id"}), On(Base, N9))
  <2>1. \A u \in N8 : \A r \in Base[u].refs : r[1] # "telegram_group"
    BY <1>0, RefersTo
  <2>2. "telegram_group" \in N8
    BY <1>0
  <2>3. {"username_normalized", "telegram_id"} \subseteq Base["telegram_group"].ix
    BY BaseTelegramTables DEF Record
  <2> QED BY <2>1, <2>2, <2>3, NoTableLeads
<1>10. Leads(On(Base, N9), NoTable("telegram_channel", {"username_normalized",
          "telegram_id"}), On(Base, N10))
  <2>1. \A u \in N9 : \A r \in Base[u].refs : r[1] # "telegram_channel"
    BY <1>0, RefersTo
  <2>2. "telegram_channel" \in N9
    BY <1>0
  <2>3. {"username_normalized", "telegram_id"} \subseteq Base["telegram_channel"].ix
    BY BaseTelegramTables DEF Record
  <2> QED BY <2>1, <2>2, <2>3, NoTableLeads
<1>11. Leads(On(Base, N10), NoTable("telegram_account", {"username_normalized",
          "telegram_id"}), On(Base, N11))
  <2>1. \A u \in N10 : \A r \in Base[u].refs : r[1] # "telegram_account"
    BY <1>0, RefersTo
  <2>2. "telegram_account" \in N10
    BY <1>0
  <2>3. {"username_normalized", "telegram_id"} \subseteq Base["telegram_account"].ix
    BY BaseTelegramTables DEF Record
  <2> QED BY <2>1, <2>2, <2>3, NoTableLeads
<1>12. Leads(On(Base, N11), NoTable("relationship", {"target", "source",
          "rel_type", "last_seen"}), On(Base, N12))
  <2>1. \A u \in N11 : \A r \in Base[u].refs : r[1] # "relationship"
    BY <1>0, RefersTo
  <2>2. "relationship" \in N11
    BY <1>0
  <2>3. {"target", "source", "rel_type", "last_seen"} \subseteq Base["relationship"].ix
    BY BaseMessageTables DEF Record
  <2> QED BY <2>1, <2>2, <2>3, NoTableLeads
<1>13. Leads(On(Base, N12), NoTable("message", {"source", "posted_at",
          "message_id", "author_account_id"}), On(Base, N13))
  <2>1. \A u \in N12 : \A r \in Base[u].refs : r[1] # "message"
    BY <1>0, RefersTo
  <2>2. "message" \in N12
    BY <1>0
  <2>3. {"source", "posted_at", "message_id",
          "author_account_id"} \subseteq Base["message"].ix
    BY BaseMessageTables DEF Record
  <2> QED BY <2>1, <2>2, <2>3, NoTableLeads
<1>14. Leads(On(Base, N13), NoTable("ip", {"address"}), On(Base, N14))
  <2>1. \A u \in N13 : \A r \in Base[u].refs : r[1] # "ip"
    BY <1>0, RefersTo
  <2>2. "ip" \in N13
    BY <1>0
  <2>3. {"address"} \subseteq Base["ip"].ix
    BY BaseObservableTables DEF Record
  <2> QED BY <2>1, <2>2, <2>3, NoTableLeads
<1>15. Leads(On(Base, N14), NoTable("ioc", {"value_normalized", "type"}), On(Base,
          N15))
  <2>1. \A u \in N14 : \A r \in Base[u].refs : r[1] # "ioc"
    BY <1>0, RefersTo
  <2>2. "ioc" \in N14
    BY <1>0
  <2>3. {"value_normalized", "type"} \subseteq Base["ioc"].ix
    BY BaseObservableTables DEF Record
  <2> QED BY <2>1, <2>2, <2>3, NoTableLeads
<1>16. Leads(On(Base, N15), NoTable("external_account", {"identifier_normalized"}),
          On(Base, N16))
  <2>1. \A u \in N15 : \A r \in Base[u].refs : r[1] # "external_account"
    BY <1>0, RefersTo
  <2>2. "external_account" \in N15
    BY <1>0
  <2>3. {"identifier_normalized"} \subseteq Base["external_account"].ix
    BY BaseObservableTables DEF Record
  <2> QED BY <2>1, <2>2, <2>3, NoTableLeads
<1>17. Leads(On(Base, N16), NoTable("evidence", {"source", "observed_at", "entity",
          "content_hash", "collected_at"}), On(Base, N17))
  <2>1. \A u \in N16 : \A r \in Base[u].refs : r[1] # "evidence"
    BY <1>0, RefersTo
  <2>2. "evidence" \in N16
    BY <1>0
  <2>3. {"source", "observed_at", "entity", "content_hash",
          "collected_at"} \subseteq Base["evidence"].ix
    BY BaseObservableTables DEF Record
  <2> QED BY <2>1, <2>2, <2>3, NoTableLeads
<1>18. Leads(On(Base, N17), NoTable("domain", {"name_normalized"}), On(Base, N18))
  <2>1. \A u \in N17 : \A r \in Base[u].refs : r[1] # "domain"
    BY <1>0, RefersTo
  <2>2. "domain" \in N17
    BY <1>0
  <2>3. {"name_normalized"} \subseteq Base["domain"].ix
    BY BaseObservableTables DEF Record
  <2> QED BY <2>1, <2>2, <2>3, NoTableLeads
<1>19. N18 = Tables1
  <2> DEFINE Gone == {"search_result", "watchlist", "search", "report", "target",
                     "username", "user", "url", "telegram_group",
                     "telegram_channel", "telegram_account",
                     "relationship", "message", "ip", "ioc",
                     "external_account", "evidence", "domain"}
  <2>1. N18 = Tables2 \ Gone
    OBVIOUS
  <2>2. Gone = ObservableTables \cup MessageTables \cup TelegramTables
               \cup UserTables \cup WorkspaceTables
    BY DEF ObservableTables, MessageTables, TelegramTables, UserTables, WorkspaceTables
  <2>3. Tables1 \cap Gone = {}
    BY DEF Tables1, JobTables
  <2> HIDE DEF Gone, N18
  <2> QED BY <2>1, <2>2, <2>3 DEF Tables1, Tables2
<1> HIDE DEF N1, N2, N3, N4, N5, N6, N7, N8, N9, N10, N11, N12, N13, N14, N15, N16, N17, N18
<1> QED BY <1>1, <1>2, <1>3, <1>4, <1>5, <1>6, <1>7, <1>8, <1>9, <1>10, <1>11, <1>12, <1>13, <1>14, <1>15, <1>16, <1>17, <1>18, <1>19, ScriptsLeadOn DEF Down0002

LEMMA Down0003Leads == Leads(On(Base, Tables3), Down0003, On(Base, Tables2))
<1> DEFINE N1 == Tables3 \ {"refresh_token"}
<1>0. /\ Tables3 \subseteq Tables5
      /\ "refresh_token" \in Tables3
      /\ "investigation" \notin Tables3
  BY DEF Tables5, Tables3, Tables2, JobTables, ObservableTables, MessageTables,
         TelegramTables, UserTables, WorkspaceTables, TokenTables, InvestigationTables
<1>1. Leads(On(Base, Tables3), NoTable("refresh_token", {"user_id"}), On(Base, N1))
  <2>1. \A u \in Tables3 : \A r \in Base[u].refs : r[1] # "refresh_token"
    BY <1>0, RefersTo
  <2>2. "refresh_token" \in Tables3
    BY <1>0
  <2>3. {"user_id"} \subseteq Base["refresh_token"].ix
    BY BaseTokenTables DEF Record
  <2> QED BY <2>1, <2>2, <2>3, NoTableLeads
<1>2. N1 = Tables2
  BY DEF Tables5, Tables3, Tables2, JobTables, ObservableTables, MessageTables,
         TelegramTables, UserTables, WorkspaceTables, TokenTables, InvestigationTables
<1> HIDE DEF N1
<1> QED BY <1>1, <1>2, ScriptsLeadOn DEF Down0003

LEMMA Down0005Leads == Leads(On(Metadata, Tables5), Down0005, On(Metadata, Tables3))
<1> DEFINE N1 == Tables5 \ {"investigation_observation"}
           N2 == N1 \ {"investigation"}
<1>0. /\ Tables5 \subseteq Tables5
      /\ "investigation_observation" \in Tables5
      /\ {"investigation_observation", "investigation"} \subseteq Tables5
  BY DEF Tables5, Tables3, Tables2, JobTables, ObservableTables, MessageTables,
         TelegramTables, UserTables, WorkspaceTables, TokenTables, InvestigationTables
<1>1. Leads(On(Metadata, Tables5), NoTable("investigation_observation",
          {"observed_at", "type", "investigation_id"}), On(Metadata, N1))
  <2>1. \A u \in Tables5 : \A r \in Metadata[u].refs : r[1] # "investigation_observation"
    BY <1>0, RefersTo
  <2>2. "investigation_observation" \in Tables5
    BY <1>0
  <2>3. {"observed_at", "type",
          "investigation_id"} \subseteq Metadata["investigation_observation"].ix
    BY BaseInvestigationTables DEF Record
  <2> QED BY <2>1, <2>2, <2>3, NoTableLeads
<1>2. Leads(On(Metadata, N1), NoTable("investigation", {"created_at", "status",
          "target_normalized", "user_id"}), On(Metadata, N2))
  <2>1. \A u \in N1 : \A r \in Metadata[u].refs : r[1] # "investigation"
    BY <1>0, RefersTo
  <2>2. "investigation" \in N1
    BY <1>0
  <2>3. {"created_at", "status", "target_normalized",
          "user_id"} \subseteq Metadata["investigation"].ix
    BY BaseInvestigationTables DEF Record
  <2> QED BY <2>1, <2>2, <2>3, NoTableLeads
<1>3. N2 = Tables3
  BY DEF Tables5, Tables3, Tables2, JobTables, ObservableTables, MessageTables,
         TelegramTables, UserTables, WorkspaceTables, TokenTables, InvestigationTables
<1> HIDE DEF N1, N2
<1> QED BY <1>1, <1>2, <1>3, ScriptsLeadOn DEF Down0005
LEMMA Up0001Leads == Leads(NoTables, Up0001, On(Base, Tables1))
<1>1. NoTables = On(Base, {})
  BY DEF NoTables, On
<1>2. Leads(On(Base, {}), Up0001, On(Base, {} \cup JobTables))
  BY JobsLead
<1>3. {} \cup JobTables = Tables1
  BY DEF Tables1
<1> QED BY <1>1, <1>2, <1>3

LEMMA Down0001Leads == Leads(On(Base, Tables1), Down0001, NoTables)
<1> DEFINE x(t) == Statement("drop", t, {}, {}, {}, {})
<1>1. \A u \in Tables1 : Base[u].refs = {}
  BY BaseJobTables DEF Record, Tables1, JobTables
<1>2. "audit_log" \in Tables1 /\ "job" \in Tables1 \ {"audit_log"}
  BY DEF Tables1, JobTables
<1>3. Leads(On(Base, Tables1), <<x("audit_log")>>, On(Base, Tables1 \ {"audit_log"}))
  BY <1>1, <1>2, DropLeads
<1>4. Leads(On(Base, Tables1 \ {"audit_log"}), <<x("job")>>,
            On(Base, (Tables1 \ {"audit_log"}) \ {"job"}))
  BY <1>1, <1>2, DropLeads
<1>5. On(Base, (Tables1 \ {"audit_log"}) \ {"job"}) = NoTables
  <2>1. (Tables1 \ {"audit_log"}) \ {"job"} = {}
    BY DEF Tables1, JobTables
  <2> QED BY <2>1 DEF NoTables, On
<1>6. <<x("audit_log")>> \o <<x("job")>> = Down0001
  BY Paired DEF Down0001
<1> QED BY <1>3, <1>4, <1>5, <1>6, ScriptsLeadOn

LEMMA Up0002Leads == Leads(On(Base, Tables1), Up0002, On(Base, Tables2))
<1> DEFINE N1 == Tables1 \cup ObservableTables
           N2 == N1 \cup MessageTables
           N3 == N2 \cup TelegramTables
           N4 == N3 \cup UserTables
           N5 == N4 \cup WorkspaceTables
<1>1. Leads(On(Base, Tables1), UpObservables, On(Base, N1))
  <2>1. Tables1 \cap ObservableTables = {}
    BY DEF Tables1, JobTables, ObservableTables
  <2> QED BY <2>1, ObservablesLead
<1>2. Leads(On(Base, N1), UpMessages, On(Base, N2))
  <2>1. N1 \cap MessageTables = {}
    BY DEF Tables1, JobTables, ObservableTables, MessageTables
  <2> QED BY <2>1, MessagesLead
<1>3. Leads(On(Base, N2), UpTelegram, On(Base, N3))
  <2>1. N2 \cap TelegramTables = {}
    BY DEF Tables1, JobTables, ObservableTables, MessageTables, TelegramTables
  <2> QED BY <2>1, TelegramLeads
<1>4. Leads(On(Base, N3), UpUsers, On(Base, N4))
  <2>1. N3 \cap UserTables = {}
    BY DEF Tables1, JobTables, ObservableTables, MessageTables, TelegramTables, UserTables
  <2> QED BY <2>1, UsersLead
<1>5. Leads(On(Base, N4), UpWorkspace, On(Base, N5))
  <2>1. N4 \cap WorkspaceTables = {}
    BY DEF Tables1, JobTables, ObservableTables, MessageTables, TelegramTables, UserTables,
           WorkspaceTables
  <2>2. {"user", "target", "job"} \subseteq N4
    BY DEF Tables1, JobTables, UserTables
  <2> QED BY <2>1, <2>2, WorkspaceLeads
<1>6. N5 = Tables2
  BY DEF Tables1, Tables2
<1> HIDE DEF N1, N2, N3, N4, N5
<1> QED BY <1>1, <1>2, <1>3, <1>4, <1>5, <1>6, ScriptsLeadOn DEF Up0002

LEMMA Up0003Leads == Leads(On(Base, Tables2), Up0003, On(Base, Tables3))
<1>1. Tables2 \cap TokenTables = {}
  BY DEF Tables2, JobTables, ObservableTables, MessageTables, TelegramTables, UserTables,
         WorkspaceTables, TokenTables
<1>2. "user" \in Tables2
  BY DEF Tables2, UserTables
<1> QED BY <1>1, <1>2, TokensLead DEF Tables3

LEMMA Up0005Leads == Leads(On(Metadata, Tables3), Up0005, On(Metadata, Tables5))
<1>1. Tables3 \cap InvestigationTables = {}
  BY DEF Tables3, Tables2, JobTables, ObservableTables, MessageTables, TelegramTables,
         UserTables, WorkspaceTables, TokenTables, InvestigationTables
<1>2. {"user", "job", "report"} \subseteq Tables3
  BY DEF Tables3, Tables2, JobTables, UserTables, WorkspaceTables
<1> QED BY <1>1, <1>2, InvestigationsLead DEF Tables5

LEMMA UserColumns ==
    /\ Base["user"].cols = {} /\ Metadata["user"].cols = FreeTier
    /\ [Base["user"] EXCEPT !.cols = FreeTier] = Metadata["user"]
    /\ [Metadata["user"] EXCEPT !.cols = {}] = Base["user"]
<1> DEFINE plain == Model({}, {{"email"}}, {"telegram_user_id", "role"})
<1>1. Base["user"] = [Metadata["user"] EXCEPT !.cols = {}] /\ Metadata["user"] = UserModel
  BY MetadataIs DEF Base, UserTables, Tables5, Tables3, Tables2
<1>2. UserModel = [plain EXCEPT !.cols = FreeTier]
  BY DEF UserModel, FreeTier
<1>3. \E a, b, c : plain = [refs |-> a, keys |-> b, ix |-> c, cols |-> {}]
  BY DEF Model
<1> HIDE DEF plain
<1> DEFINE none == {}
<1>4. PICK a, b, c : plain = [refs |-> a, keys |-> b, ix |-> c, cols |-> none]
  BY <1>3
<1> HIDE DEF none
<1>5. UserModel = [refs |-> a, keys |-> b, ix |-> c, cols |-> FreeTier]
  BY <1>2, <1>4
<1>6. [UserModel EXCEPT !.cols = none] = [refs |-> a, keys |-> b, ix |-> c, cols |-> none]
  BY <1>5
<1>7. [plain EXCEPT !.cols = FreeTier] = [refs |-> a, keys |-> b, ix |-> c, cols |-> FreeTier]
  BY <1>4
<1>8. Base["user"] = plain
  BY <1>1, <1>4, <1>6 DEF none
<1>9. plain.cols = none /\ UserModel.cols = FreeTier
  BY <1>4, <1>5
<1> QED BY <1>1, <1>2, <1>8, <1>9 DEF none

LEMMA OnlyUserDiffers ==
    ASSUME NEW t \in Tables5, t # "user" PROVE Base[t] = Metadata[t]
BY MetadataIs DEF Base

LEMMA Up0004Leads == Leads(On(Base, Tables3), Up0004, On(Metadata, Tables3))
<1> DEFINE x == Statement("add", "user", {}, {}, {}, FreeTier)
           db == On(Base, Tables3)
<1>1. "user" \in Tables3 /\ Tables3 \subseteq Tables5
  BY DEF Tables3, Tables2, UserTables, Tables5
<1>2. DOMAIN db = Tables3 /\ \A t \in Tables3 : db[t] = Base[t]
  BY DEF On
<1>3. Fits(db, x)
  BY <1>1, <1>2, UserColumns DEF Fits, Statement
<1>4. Apply(db, x) = On(Metadata, Tables3)
  <2>1. Apply(db, x) = [db EXCEPT !["user"].cols = @ \cup FreeTier]
    BY DEF Apply, Statement
  <2>2. db["user"].cols \cup FreeTier = FreeTier
    BY <1>1, <1>2, UserColumns
  <2>3. [db EXCEPT !["user"].cols = FreeTier] = On(Metadata, Tables3)
    <3> DEFINE row == [db["user"] EXCEPT !.cols = FreeTier]
    <3>1. row = Metadata["user"]
      BY <1>1, <1>2, UserColumns
    <3>2. [db EXCEPT !["user"] = row] = On(Metadata, Tables3)
      <4> HIDE DEF row, db
      <4> QED BY <1>1, <1>2, <3>1, OnlyUserDiffers DEF On, db
    <3> QED BY <3>2
  <2> HIDE DEF db
  <2> QED BY <2>1, <2>2, <2>3
<1> HIDE DEF x, db
<1> QED BY <1>3, <1>4, StatementLeads DEF Up0004, x, db

LEMMA Down0004Leads == Leads(On(Metadata, Tables3), Down0004, On(Base, Tables3))
<1> DEFINE x == Statement("remove", "user", {}, {}, {}, FreeTier)
           db == On(Metadata, Tables3)
<1>1. "user" \in Tables3 /\ Tables3 \subseteq Tables5
  BY DEF Tables3, Tables2, UserTables, Tables5
<1>2. DOMAIN db = Tables3 /\ \A t \in Tables3 : db[t] = Metadata[t]
  BY DEF On
<1>3. Fits(db, x)
  BY <1>1, <1>2, UserColumns DEF Fits, Statement
<1>4. Apply(db, x) = On(Base, Tables3)
  <2>1. Apply(db, x) = [db EXCEPT !["user"].cols = @ \ FreeTier]
    BY DEF Apply, Statement
  <2>2. db["user"].cols \ FreeTier = {}
    BY <1>1, <1>2, UserColumns
  <2>3. [db EXCEPT !["user"].cols = {}] = On(Base, Tables3)
    <3> DEFINE row == [db["user"] EXCEPT !.cols = {}]
    <3>1. row = Base["user"]
      BY <1>1, <1>2, UserColumns
    <3>2. [db EXCEPT !["user"] = row] = On(Base, Tables3)
      <4> HIDE DEF row, db
      <4> QED BY <1>1, <1>2, <3>1, OnlyUserDiffers DEF On, db
    <3> QED BY <3>2
  <2> HIDE DEF db
  <2> QED BY <2>1, <2>2, <2>3
<1> HIDE DEF x, db
<1> QED BY <1>3, <1>4, StatementLeads DEF Down0004, x, db
-----------------------------------------------------------------------------
(* The schema: from any revision to any other                              *)

\* The schema of each revision, said outright.
Stand(r) == CASE r = 0 -> NoTables
              [] r = 1 -> On(Base, Tables1)
              [] r = 2 -> On(Base, Tables2)
              [] r = 3 -> On(Base, Tables3)
              [] r = 4 -> On(Metadata, Tables3)
              [] r = 5 -> On(Metadata, Tables5)

LEMMA StandIs ==
    /\ Stand(0) = NoTables /\ Stand(1) = On(Base, Tables1)
    /\ Stand(2) = On(Base, Tables2) /\ Stand(3) = On(Base, Tables3)
    /\ Stand(4) = On(Metadata, Tables3) /\ Stand(5) = On(Metadata, Tables5)
BY DEF Stand

LEMMA UpgradeLeads ==
    ASSUME NEW r \in 1..5 PROVE Leads(Stand(r - 1), Upgrade[r], Stand(r))
<1>1. r = 1 \/ r = 2 \/ r = 3 \/ r = 4 \/ r = 5
  OBVIOUS
<1>2. /\ Upgrade[1] = Up0001 /\ Upgrade[2] = Up0002 /\ Upgrade[3] = Up0003
      /\ Upgrade[4] = Up0004 /\ Upgrade[5] = Up0005
  BY DEF Upgrade
<1> QED BY <1>1, <1>2, StandIs, Up0001Leads, Up0002Leads, Up0003Leads, Up0004Leads, Up0005Leads

LEMMA DowngradeLeads ==
    ASSUME NEW r \in 1..5 PROVE Leads(Stand(r), Downgrade[r], Stand(r - 1))
<1>1. r = 1 \/ r = 2 \/ r = 3 \/ r = 4 \/ r = 5
  OBVIOUS
<1>2. /\ Downgrade[1] = Down0001 /\ Downgrade[2] = Down0002 /\ Downgrade[3] = Down0003
      /\ Downgrade[4] = Down0004 /\ Downgrade[5] = Down0005
  BY DEF Downgrade
<1> QED BY <1>1, <1>2, StandIs, Down0001Leads, Down0002Leads, Down0003Leads, Down0004Leads,
           Down0005Leads

\* No two successive revisions have the same schema.
LEMMA RevisionsDiffer == \A r \in 1..5 : Stand(r - 1) # Stand(r)
<1>1. \A M, N : DOMAIN On(M, N) = N
  BY DEF On
<1>2. /\ "job" \in Tables1 /\ "domain" \in Tables2 \ Tables1
      /\ "refresh_token" \in Tables3 \ Tables2 /\ "investigation" \in Tables5 \ Tables3
      /\ "user" \in Tables3
  BY DEF Tables5, Tables3, Tables2, Tables1, JobTables, ObservableTables, MessageTables,
         TelegramTables, UserTables, WorkspaceTables, TokenTables, InvestigationTables
<1>3. NoTables # On(Base, Tables1)
  BY <1>1, <1>2 DEF NoTables
<1>4. On(Base, Tables1) # On(Base, Tables2) /\ On(Base, Tables2) # On(Base, Tables3)
  BY <1>1, <1>2
<1>5. On(Metadata, Tables3) # On(Metadata, Tables5)
  BY <1>1, <1>2
<1>6. On(Base, Tables3) # On(Metadata, Tables3)
  <2>1. On(Base, Tables3)["user"] = Base["user"] /\ On(Metadata, Tables3)["user"] = Metadata["user"]
    BY <1>2 DEF On
  <2>2. Base["user"].cols # Metadata["user"].cols
    BY UserColumns DEF FreeTier
  <2> QED BY <2>1, <2>2
<1>7. \A r \in 1..5 : r = 1 \/ r = 2 \/ r = 3 \/ r = 4 \/ r = 5
  OBVIOUS
<1> QED BY <1>3, <1>4, <1>5, <1>6, <1>7, StandIs

Pairs == (0..LastRevision) \X (0..LastRevision)

\* One step of a script, as a function of what follows.
ScriptStep(f, p) == IF p[1] < p[2] THEN Upgrade[p[1] + 1] \o f[<<p[1] + 1, p[2]>>]
                    ELSE IF p[1] > p[2] THEN Downgrade[p[1]] \o f[<<p[1] - 1, p[2]>>] ELSE <<>>

\* There is a script for revisions at any distance.
LEMMA ScriptIs == Script = [p \in Pairs |-> ScriptStep(Script, p)]
<1> DEFINE near(p, n) == p[1] - p[2] <= n /\ p[2] - p[1] <= n
           Good(f, n) == \A p \in Pairs : near(p, n) => f[p] = ScriptStep(f, p)
           Exists(n) == \E f : DOMAIN f = Pairs /\ Good(f, n)
<1>1. Exists(0)
  <2> DEFINE f == [p \in Pairs |-> <<>>]
  <2>1. Good(f, 0)
    BY DEF ScriptStep, Pairs, LastRevision
  <2> QED BY <2>1
<1>2. ASSUME NEW n \in 0..4, Exists(n) PROVE Exists(n + 1)
  <2>1. PICK f : DOMAIN f = Pairs /\ Good(f, n)
    BY <1>2
  <2> DEFINE g == [p \in Pairs |-> IF near(p, n) THEN f[p] ELSE ScriptStep(f, p)]
  <2>2. \A p \in Pairs : g[p] = IF near(p, n) THEN f[p] ELSE ScriptStep(f, p)
    OBVIOUS
  <2> HIDE DEF g
  <2>3. ASSUME NEW p \in Pairs, near(p, n + 1) PROVE g[p] = ScriptStep(g, p)
    <3>1. p[1] \in 0..5 /\ p[2] \in 0..5
      BY DEF Pairs, LastRevision
    <3>2. g[p] = ScriptStep(f, p)
      BY <2>1, <2>2
    <3>3. p[1] < p[2] => g[<<p[1] + 1, p[2]>>] = f[<<p[1] + 1, p[2]>>]
      <4> SUFFICES ASSUME p[1] < p[2] PROVE g[<<p[1] + 1, p[2]>>] = f[<<p[1] + 1, p[2]>>]
        OBVIOUS
      <4>1. <<p[1] + 1, p[2]>> \in Pairs /\ near(<<p[1] + 1, p[2]>>, n)
        BY <2>3, <3>1 DEF Pairs, LastRevision
      <4> QED BY <2>2, <4>1
    <3>4. p[1] > p[2] => g[<<p[1] - 1, p[2]>>] = f[<<p[1] - 1, p[2]>>]
      <4> SUFFICES ASSUME p[1] > p[2] PROVE g[<<p[1] - 1, p[2]>>] = f[<<p[1] - 1, p[2]>>]
        OBVIOUS
      <4>1. <<p[1] - 1, p[2]>> \in Pairs /\ near(<<p[1] - 1, p[2]>>, n)
        BY <2>3, <3>1 DEF Pairs, LastRevision
      <4> QED BY <2>2, <4>1
    <3> QED BY <3>1, <3>2, <3>3, <3>4 DEF ScriptStep
  <2>4. DOMAIN g = Pairs
    BY DEF g
  <2> QED BY <2>3, <2>4
<1>3. Exists(5)
  <2>1. Exists(0 + 1) /\ 0 + 1 = 1
    BY <1>1, <1>2
  <2>2. Exists(1 + 1) /\ 1 + 1 = 2
    BY <1>2, <2>1
  <2>3. Exists(2 + 1) /\ 2 + 1 = 3
    BY <1>2, <2>2
  <2>4. Exists(3 + 1) /\ 3 + 1 = 4
    BY <1>2, <2>3
  <2> HIDE DEF Exists
  <2>5. Exists(4 + 1) /\ 4 + 1 = 5
    BY <1>2, <2>4
  <2> QED BY <2>5
<1>4. \A p \in Pairs : near(p, 5)
  BY DEF Pairs, LastRevision
<1>5. \E f : DOMAIN f = Pairs /\ \A p \in Pairs : f[p] = ScriptStep(f, p)
  BY <1>3, <1>4
<1>6. \E f : f = [p \in Pairs |-> ScriptStep(f, p)]
  <2>1. PICK f : DOMAIN f = Pairs /\ \A p \in Pairs : f[p] = ScriptStep(f, p)
    BY <1>5
  <2> DEFINE g == [p \in Pairs |-> f[p]]
  <2>2. \A p \in Pairs : g[p] = f[p] /\ ScriptStep(g, p) = ScriptStep(f, p)
    <3> SUFFICES ASSUME NEW p \in Pairs PROVE g[p] = f[p] /\ ScriptStep(g, p) = ScriptStep(f, p)
      OBVIOUS
    <3>1. \A q \in Pairs : g[q] = f[q]
      OBVIOUS
    <3>2. /\ p[1] < p[2] => <<p[1] + 1, p[2]>> \in Pairs
          /\ p[1] > p[2] => <<p[1] - 1, p[2]>> \in Pairs
      BY DEF Pairs, LastRevision
    <3> HIDE DEF g
    <3> QED BY <3>1, <3>2 DEF ScriptStep
  <2>3. g = [p \in Pairs |-> ScriptStep(g, p)]
    BY <2>1, <2>2
  <2> QED BY <2>3
<1> QED BY <1>6, Zenon DEF Script, ScriptStep, Pairs

LEMMA LeadsFar ==
    ASSUME NEW a, NEW s, NEW b, Leads(a, s, b)
    PROVE  Len(s) \in Nat /\ (a # b => Len(s) > 0)
<1>1. Len(s) \in Nat
  BY LenProperties DEF Leads
<1>2. Len(s) = 0 => a = b
  BY DEF Leads, RunOf
<1> QED BY <1>1, <1>2

LEMMA ScriptLeads ==
    ASSUME NEW p \in Pairs
    PROVE  /\ Leads(Stand(p[1]), Script[p], Stand(p[2]))
           /\ p[1] # p[2] => Len(Script[p]) > 0
<1> DEFINE near(q, n) == q[1] - q[2] <= n /\ q[2] - q[1] <= n
           Fine(q) == /\ Leads(Stand(q[1]), Script[q], Stand(q[2]))
                      /\ q[1] # q[2] => Len(Script[q]) > 0
           Good(n) == \A q \in Pairs : near(q, n) => Fine(q)
<1>1. \A q \in Pairs : Script[q] = ScriptStep(Script, q)
  BY ScriptIs
<1>2. \A q \in Pairs : q = <<q[1], q[2]>> /\ q[1] \in 0..5 /\ q[2] \in 0..5
  BY DEF Pairs, LastRevision
<1>3. ASSUME NEW s, NEW t, NEW a, NEW b, NEW c, Leads(a, s, b), Leads(b, t, c), a # b
      PROVE  Leads(a, s \o t, c) /\ Len(s \o t) > 0
  <2>1. PICK T : s \in Seq(T)
    BY <1>3 DEF Leads
  <2>2. PICK U : t \in Seq(U)
    BY <1>3 DEF Leads
  <2>3. s \in Seq(T \cup U) /\ t \in Seq(T \cup U)
    BY <2>1, <2>2
  <2>4. Len(s \o t) = Len(s) + Len(t)
    BY <2>3, ConcatProperties
  <2>5. Len(s) \in Nat /\ Len(t) \in Nat /\ Len(s) > 0
    BY <1>3, LeadsFar
  <2> QED BY <1>3, <2>4, <2>5, ScriptsLeadOn
<1>4. Good(0)
  <2> SUFFICES ASSUME NEW q \in Pairs, near(q, 0) PROVE Fine(q)
    OBVIOUS
  <2>1. q[1] = q[2]
    BY <1>2
  <2>2. Script[q] = <<>>
    <3>1. ~(q[1] < q[2]) /\ ~(q[1] > q[2])
      BY <1>2, <2>1
    <3>2. Script[q] = ScriptStep(Script, q)
      BY <1>1
    <3> QED BY ONLY <3>1, <3>2 DEF ScriptStep
  <2> QED BY <2>1, <2>2, NothingLeads
<1>5. ASSUME NEW n \in 0..4, Good(n) PROVE Good(n + 1)
  <2> SUFFICES ASSUME NEW q \in Pairs, near(q, n + 1) PROVE Fine(q)
    OBVIOUS
  <2>1. CASE near(q, n)
    BY <1>5, <2>1
  <2>2. CASE ~near(q, n) /\ q[1] < q[2]
    <3> DEFINE r == <<q[1] + 1, q[2]>>
    <3>1. r \in Pairs /\ near(r, n) /\ r[1] = q[1] + 1 /\ r[2] = q[2] /\ q[1] + 1 \in 1..5
      BY <1>2, <2>2 DEF Pairs, LastRevision
    <3>2. Script[q] = Upgrade[q[1] + 1] \o Script[r]
      BY <1>1, <2>2 DEF ScriptStep
    <3>3. Leads(Stand(q[1]), Upgrade[q[1] + 1], Stand(q[1] + 1)) /\ Stand(q[1]) # Stand(q[1] + 1)
      <4>1. (q[1] + 1) - 1 = q[1]
        BY <1>2
      <4> QED BY <3>1, <4>1, UpgradeLeads, RevisionsDiffer
    <3>4. Leads(Stand(q[1] + 1), Script[r], Stand(q[2]))
      BY <1>5, <3>1
    <3> HIDE DEF r
    <3> QED BY <1>3, <3>2, <3>3, <3>4
  <2>3. CASE ~near(q, n) /\ ~(q[1] < q[2])
    <3> DEFINE r == <<q[1] - 1, q[2]>>
    <3>1. /\ r \in Pairs /\ near(r, n) /\ r[1] = q[1] - 1 /\ r[2] = q[2]
          /\ q[1] \in 1..5 /\ q[1] > q[2]
      BY <1>2, <2>3 DEF Pairs, LastRevision
    <3>2. Script[q] = Downgrade[q[1]] \o Script[r]
      BY <1>1, <2>3, <3>1 DEF ScriptStep
    <3>3. Leads(Stand(q[1]), Downgrade[q[1]], Stand(q[1] - 1)) /\ Stand(q[1]) # Stand(q[1] - 1)
      BY <3>1, DowngradeLeads, RevisionsDiffer
    <3>4. Leads(Stand(q[1] - 1), Script[r], Stand(q[2]))
      BY <1>5, <3>1
    <3> HIDE DEF r
    <3> QED BY <1>3, <3>2, <3>3, <3>4
  <2> QED BY <2>1, <2>2, <2>3
<1>6. Good(5)
  <2> HIDE DEF Good
  <2>1. Good(0 + 1) /\ 0 + 1 = 1
    BY <1>4, <1>5
  <2>2. Good(1 + 1) /\ 1 + 1 = 2
    BY <1>5, <2>1
  <2>3. Good(2 + 1) /\ 2 + 1 = 3
    BY <1>5, <2>2
  <2>4. Good(3 + 1) /\ 3 + 1 = 4
    BY <1>5, <2>3
  <2>5. Good(4 + 1) /\ 4 + 1 = 5
    BY <1>5, <2>4
  <2> QED BY <2>5
<1>7. near(p, 5)
  BY <1>2
<1> QED BY <1>6, <1>7

\* Upgraded from nothing, a database has the schema of its revision, and at the
\* last one that of the models.
LEMMA SchemasAre ==
    /\ \A r \in 0..LastRevision : SchemaAt[r] = Stand(r)
    /\ SchemaAt[LastRevision] = Metadata
<1>1. ASSUME NEW r \in 0..LastRevision PROVE SchemaAt[r] = Stand(r)
  <2>1. <<0, r>> \in Pairs
    BY DEF Pairs, LastRevision
  <2>2. Leads(NoTables, Script[<<0, r>>], Stand(r))
    BY <2>1, ScriptLeads, StandIs
  <2>3. Walk(NoTables, Script[<<0, r>>])[Len(Script[<<0, r>>])] = Stand(r)
    BY <2>2, WalkIsRun
  <2>4. SchemaAt[r] = Walk(NoTables, Script[<<0, r>>])[Len(Script[<<0, r>>])]
    BY DEF SchemaAt
  <2> QED BY <2>3, <2>4
<1>2. On(Metadata, Tables5) = Metadata
  <2>1. Metadata = [t \in DOMAIN Metadata |-> Metadata[t]]
    BY DEF Metadata
  <2> QED BY <2>1, MetadataIs DEF On
<1>3. LastRevision \in 0..LastRevision /\ LastRevision = 5
  BY DEF LastRevision
<1> QED BY <1>1, <1>2, <1>3, StandIs

\* What Execute, Raise and CommitRun meet: no statement is refused, and the end
\* of a script is the schema of the revision it leads to.
LEMMA ScriptRuns ==
    ASSUME NEW p \in Pairs
    PROVE  /\ Len(Script[p]) \in Nat
           /\ RunOf(SchemaAt[p[1]], Script[p], Walk(SchemaAt[p[1]], Script[p]))
           /\ Walk(SchemaAt[p[1]], Script[p])[Len(Script[p])] = SchemaAt[p[2]]
           /\ p[1] # p[2] => Len(Script[p]) > 0
           /\ p[1] = p[2] => Len(Script[p]) = 0
<1>1. p[1] \in 0..LastRevision /\ p[2] \in 0..LastRevision
  BY DEF Pairs
<1>2. Leads(SchemaAt[p[1]], Script[p], SchemaAt[p[2]])
  BY <1>1, ScriptLeads, SchemasAre
<1>3. p[1] = p[2] => Script[p] = <<>>
  BY <1>1, ScriptIs DEF ScriptStep, LastRevision
<1> QED BY <1>2, <1>3, ScriptLeads, LeadsFar, WalkIsRun
-----------------------------------------------------------------------------
(* The schema: the inductive invariant                                     *)

\* What a container's transaction sees is where its script has led.
DraftsFit ==
    /\ line \in [Containers -> Nat] /\ draft = [c \in Containers |-> draft[c]]
    /\ \A c \in Containers :
           /\ stage[c] # "running" => line[c] = 0
           /\ stage[c] = "running" /\ line[c] > 0 =>
                  draft[c] = Walk(SchemaAt[span[c][1]], Script[span[c]])[line[c]]

\* The migrate service runs alone, and an api only after it succeeded.
ApisFollow ==
    /\ \A a \in Apis : stage[a] # "down" => stage[Migrator] = "done"
    /\ stage[Migrator] = "done" => revision = LastRevision
    /\ \A a \in Apis : stage[a] = "running" => span[a] = <<LastRevision, LastRevision>>
    /\ stage[Migrator] = "running" =>
           /\ span[Migrator][1] = revision
           /\ span[Migrator][2] = LastRevision \/ span[Migrator][2] < revision
    /\ \A c \in Containers : stage[c] # "raised"

MigrationsInv == MigrationsTypeOK /\ SchemaOfRevision /\ DraftsFit /\ ApisFollow

LEMMA MigrationsStart == MigrationsInit => MigrationsInv
<1> SUFFICES ASSUME MigrationsInit PROVE MigrationsInv
  OBVIOUS
<1>1. <<0, 0>> \in Pairs /\ Len(Script[<<0, 0>>]) = 0
  BY ScriptRuns DEF Pairs, LastRevision
<1>2. MigrationsTypeOK
  BY <1>1 DEF MigrationsInit, MigrationsTypeOK, LastRevision
<1>3. SchemaOfRevision
  BY DEF MigrationsInit, SchemaOfRevision
<1>4. DraftsFit /\ ApisFollow
  BY DEF MigrationsInit, DraftsFit, ApisFollow, Containers
<1> QED BY <1>2, <1>3, <1>4 DEF MigrationsInv

\* An alembic that starts.
LEMMA RunKept ==
    ASSUME MigrationsInv, NEW c \in Containers, NEW to \in 0..LastRevision, Run(c, to),
           stage[c] # "running",
           c \in Apis => stage[Migrator] = "done" /\ to = LastRevision,
           c = Migrator => /\ \A a \in Apis : stage[a] = "down"
                           /\ to = LastRevision \/ to < revision
    PROVE  MigrationsInv'
<1>1. revision \in 0..LastRevision /\ <<revision, to>> \in Pairs
  BY DEF MigrationsInv, MigrationsTypeOK, Pairs
<1>2. Len(Script[<<revision, to>>]) \in Nat
  BY <1>1, ScriptRuns
<1>3. MigrationsTypeOK'
  <2>1. \A d \in Containers : line'[d] \in 0..Len(Script[span'[d]])
    <3>1. line[c] = 0 /\ line' = line /\ span' = [span EXCEPT ![c] = <<revision, to>>]
      BY DEF MigrationsInv, DraftsFit, Run
    <3>2. DOMAIN span = Containers /\ \A d \in Containers : line[d] \in 0..Len(Script[span[d]])
      BY DEF MigrationsInv, MigrationsTypeOK
    <3> QED BY <1>2, <3>1, <3>2
  <2> QED BY <1>1, <2>1 DEF MigrationsInv, MigrationsTypeOK, Run, Pairs
<1>4. SchemaOfRevision'
  BY DEF MigrationsInv, SchemaOfRevision, Run
<1>5. DraftsFit'
  BY DEF MigrationsInv, MigrationsTypeOK, DraftsFit, Run
<1>6. ApisFollow'
  BY MigrationsAssumption DEF MigrationsInv, MigrationsTypeOK, ApisFollow, Run, Containers
<1> QED BY <1>3, <1>4, <1>5, <1>6 DEF MigrationsInv

\* Where a running container stands: its first statement sees the schema that
\* its script starts from.
LEMMA RunningFits ==
    ASSUME MigrationsInv, NEW c \in Containers, stage[c] = "running"
    PROVE  /\ span[c] \in Pairs /\ span[c][1] = revision /\ line[c] \in 0..Len(Script[span[c]])
           /\ Sees(c) = Walk(SchemaAt[span[c][1]], Script[span[c]])[line[c]]
<1>1. span[c] \in Pairs /\ line[c] \in 0..Len(Script[span[c]]) /\ line[c] \in Nat
  BY DEF MigrationsInv, MigrationsTypeOK, DraftsFit, Pairs
<1>2. span[c][1] = revision
  <2>1. CASE c = Migrator
    BY <2>1 DEF MigrationsInv, ApisFollow
  <2>2. CASE c \in Apis
    BY <2>2 DEF MigrationsInv, ApisFollow
  <2> QED BY <2>1, <2>2 DEF Containers
<1>3. Walk(SchemaAt[span[c][1]], Script[span[c]])[0] = SchemaAt[span[c][1]]
  BY <1>1, ScriptRuns DEF RunOf
<1>4. schema = SchemaAt[revision]
  BY DEF MigrationsInv, SchemaOfRevision
<1>5. CASE line[c] = 0
  BY <1>1, <1>2, <1>3, <1>4, <1>5 DEF Sees
<1>6. CASE line[c] # 0
  BY <1>1, <1>2, <1>6 DEF Sees, MigrationsInv, DraftsFit
<1> QED BY <1>5, <1>6

\* The next statement of a script fits.
LEMMA NextFits ==
    ASSUME MigrationsInv, NEW c \in Containers, stage[c] = "running", Left(c) > 0
    PROVE  /\ Fits(Sees(c), Next_(c))
           /\ line[c] + 1 \in 1..Len(Script[span[c]])
           /\ Apply(Sees(c), Next_(c))
                = Walk(SchemaAt[span[c][1]], Script[span[c]])[line[c] + 1]
<1> DEFINE s == Script[span[c]]
           w == Walk(SchemaAt[span[c][1]], s)
           i == line[c] + 1
<1>1. span[c] \in Pairs /\ line[c] \in 0..Len(s) /\ Sees(c) = w[line[c]]
  BY RunningFits
<1>2. Len(s) \in Nat /\ RunOf(SchemaAt[span[c][1]], s, w)
  BY <1>1, ScriptRuns
<1>3. i \in 1..Len(s) /\ i - 1 = line[c]
  BY <1>1, <1>2 DEF Left
<1>4. Fits(w[i - 1], s[i]) /\ w[i] = Apply(w[i - 1], s[i])
  BY <1>2, <1>3 DEF RunOf
<1> HIDE DEF w
<1> QED BY <1>1, <1>3, <1>4 DEF Next_, w

LEMMA ExecuteKept ==
    ASSUME MigrationsInv, NEW c \in Containers, Execute(c) PROVE MigrationsInv'
<1>1. stage[c] = "running" /\ Left(c) > 0
  BY DEF Execute
<1>2. /\ line[c] + 1 \in 1..Len(Script[span[c]])
      /\ Apply(Sees(c), Next_(c)) = Walk(SchemaAt[span[c][1]], Script[span[c]])[line[c] + 1]
  BY <1>1, NextFits
<1>3. span[c] \in Pairs /\ Len(Script[span[c]]) \in Nat /\ line[c] \in Nat
  BY <1>1, RunningFits, ScriptRuns
<1>4. /\ draft' = [draft EXCEPT ![c] = Apply(Sees(c), Next_(c))]
      /\ line' = [line EXCEPT ![c] = @ + 1]
      /\ UNCHANGED <<schema, revision, stage, span>>
  BY DEF Execute
<1> DEFINE next == Apply(Sees(c), Next_(c))
<1> HIDE DEF next
<1>5. draft' = [draft EXCEPT ![c] = next]
      /\ next = Walk(SchemaAt[span[c][1]], Script[span[c]])[line[c] + 1]
  BY <1>2, <1>4 DEF next
<1>6. MigrationsTypeOK'
  BY <1>2, <1>3, <1>4 DEF MigrationsInv, MigrationsTypeOK, DraftsFit
<1>7. DraftsFit'
  <2>1. /\ line \in [Containers -> Nat] /\ draft = [d \in Containers |-> draft[d]]
        /\ \A d \in Containers :
               /\ stage[d] # "running" => line[d] = 0
               /\ stage[d] = "running" /\ line[d] > 0 =>
                      draft[d] = Walk(SchemaAt[span[d][1]], Script[span[d]])[line[d]]
    BY DEF MigrationsInv, DraftsFit
  <2>2. line' \in [Containers -> Nat] /\ draft' = [d \in Containers |-> draft'[d]]
    <3>1. line' \in [Containers -> Nat]
      BY <1>3, <1>4, <2>1
    <3>2. ASSUME NEW f, f = [d \in Containers |-> f[d]]
          PROVE  [f EXCEPT ![c] = next] = [d \in Containers |-> [f EXCEPT ![c] = next][d]]
      BY <3>2
    <3> QED BY <1>5, <2>1, <3>1, <3>2
  <2>3. ASSUME NEW d \in Containers
        PROVE  /\ stage'[d] # "running" => line'[d] = 0
               /\ stage'[d] = "running" /\ line'[d] > 0 =>
                      draft'[d] = Walk(SchemaAt[span'[d][1]], Script[span'[d]])[line'[d]]
    <3>1. CASE d = c
      <4>1. line'[c] = line[c] + 1 /\ draft'[c] = next /\ stage'[c] = "running"
            /\ span' = span
        BY <1>1, <1>4, <1>5, <2>1
      <4> QED BY <1>5, <3>1, <4>1
    <3>2. CASE d # c
      <4>1. line'[d] = line[d] /\ draft'[d] = draft[d] /\ stage' = stage /\ span' = span
        BY <1>4, <1>5, <2>1, <3>2
      <4> QED BY <2>1, <4>1
    <3> QED BY <3>1, <3>2
  <2> QED BY <2>2, <2>3 DEF DraftsFit
<1>8. SchemaOfRevision' /\ ApisFollow'
  BY <1>4 DEF MigrationsInv, SchemaOfRevision, ApisFollow
<1> QED BY <1>6, <1>7, <1>8 DEF MigrationsInv

\* What the end of a run leaves alone.
LEMMA EndRunKept ==
    ASSUME MigrationsInv, NEW c \in Containers, stage[c] = "running",
           NEW how \in {"down", "killed", "done"}, EndRun(c, how),
           revision' \in 0..LastRevision
    PROVE  MigrationsTypeOK' /\ DraftsFit'
<1>1. \A d \in Containers : Len(Script[span[d]]) \in Nat
  <2>1. \A d \in Containers : span[d] \in Pairs
    BY DEF MigrationsInv, MigrationsTypeOK, Pairs
  <2> QED BY <2>1, ScriptRuns
<1>2. line' = [line EXCEPT ![c] = 0] /\ stage' = [stage EXCEPT ![c] = how] /\ span' = span
      /\ draft' = [draft EXCEPT ![c] = NoTables]
  BY DEF EndRun
<1>3. MigrationsTypeOK'
  BY <1>1, <1>2 DEF MigrationsInv, MigrationsTypeOK, DraftsFit
<1>4. DraftsFit'
  BY <1>2 DEF MigrationsInv, MigrationsTypeOK, DraftsFit
<1> QED BY <1>3, <1>4

LEMMA KillKept ==
    ASSUME MigrationsInv, NEW c \in Containers, Kill(c) PROVE MigrationsInv'
<1>1. /\ stage[c] = "running" /\ EndRun(c, "killed") /\ schema' = schema /\ revision' = revision
  BY DEF Kill
<1>2. revision' \in 0..LastRevision
  BY <1>1 DEF MigrationsInv, MigrationsTypeOK
<1>3. MigrationsTypeOK' /\ DraftsFit'
  BY <1>1, <1>2, EndRunKept
<1>4. SchemaOfRevision'
  BY <1>1 DEF MigrationsInv, SchemaOfRevision
<1>5. ApisFollow'
  BY <1>1, MigrationsAssumption DEF MigrationsInv, MigrationsTypeOK, ApisFollow, EndRun, Containers
<1> QED BY <1>3, <1>4, <1>5 DEF MigrationsInv

LEMMA CommitRunKept ==
    ASSUME MigrationsInv, NEW c \in Containers, CommitRun(c) PROVE MigrationsInv'
<1> DEFINE how == IF span[c][2] < span[c][1] THEN "down" ELSE "done"
<1>1. /\ stage[c] = "running" /\ Left(c) = 0 /\ EndRun(c, how)
      /\ schema' = IF line[c] = 0 THEN schema ELSE draft[c]
      /\ revision' = IF line[c] = 0 THEN revision ELSE span[c][2]
  BY DEF CommitRun
<1>2. /\ span[c] \in Pairs /\ span[c][1] = revision /\ line[c] \in 0..Len(Script[span[c]])
      /\ Sees(c) = Walk(SchemaAt[span[c][1]], Script[span[c]])[line[c]]
  BY <1>1, RunningFits
<1>3. /\ Len(Script[span[c]]) \in Nat
      /\ Walk(SchemaAt[span[c][1]], Script[span[c]])[Len(Script[span[c]])] = SchemaAt[span[c][2]]
      /\ span[c][1] # span[c][2] => Len(Script[span[c]]) > 0
  BY <1>2, ScriptRuns
<1>4. line[c] = Len(Script[span[c]])
  BY <1>1, <1>2, <1>3 DEF Left
<1>5. revision' = span[c][2] /\ schema' = SchemaAt[span[c][2]]
  <2>1. schema' = Sees(c)
    BY <1>1 DEF Sees
  <2> QED BY <1>1, <1>2, <1>3, <1>4, <2>1
<1>6. /\ span[c][2] \in 0..LastRevision /\ span[c][1] \in 0..LastRevision
      /\ how \in {"down", "killed", "done"}
  BY <1>2 DEF Pairs
<1>7. MigrationsTypeOK' /\ DraftsFit'
  BY <1>1, <1>5, <1>6, EndRunKept
<1>8. SchemaOfRevision'
  BY <1>5 DEF SchemaOfRevision
<1>9. ApisFollow'
  <2>1. stage' = [stage EXCEPT ![c] = how] /\ span' = span
    BY <1>1 DEF EndRun
  <2>2. CASE c = Migrator
    <3>1. \A a \in Apis : a # c /\ stage[a] = "down"
      BY <1>1, <2>2, MigrationsAssumption DEF MigrationsInv, ApisFollow
    <3>2. how = "done" => span[c][2] = LastRevision
      BY <1>1, <1>2, <1>6, <2>2 DEF MigrationsInv, ApisFollow
    <3> QED BY <1>1, <1>5, <2>1, <2>2, <3>1, <3>2 DEF MigrationsInv, MigrationsTypeOK, ApisFollow, Containers
  <2>3. CASE c \in Apis
    <3>1. c # Migrator /\ stage[Migrator] = "done" /\ span[c] = <<LastRevision, LastRevision>>
      BY <1>1, <2>3, MigrationsAssumption DEF MigrationsInv, ApisFollow
    <3>2. revision' = LastRevision
      BY <1>5, <3>1
    <3>3. how # "raised"
      OBVIOUS
    <3> HIDE DEF how
    <3> QED BY <2>1, <2>3, <3>1, <3>2, <3>3 DEF MigrationsInv, MigrationsTypeOK, ApisFollow, Containers
  <2> QED BY <2>2, <2>3 DEF Containers
<1> QED BY <1>7, <1>8, <1>9 DEF MigrationsInv

LEMMA ServingKept ==
    ASSUME MigrationsInv, NEW a \in Apis, Serve(a) \/ StopApi(a) PROVE MigrationsInv'
<1>1. /\ UNCHANGED <<schema, revision, span, line, draft>>
      /\ stage[a] \notin {"down", "running"} /\ a # Migrator
      /\ \E how \in {"serving", "down"} : stage' = [stage EXCEPT ![a] = how]
  BY MigrationsAssumption DEF Serve, StopApi
<1>2. MigrationsTypeOK'
  BY <1>1 DEF MigrationsInv, MigrationsTypeOK
<1>3. SchemaOfRevision'
  BY <1>1 DEF MigrationsInv, SchemaOfRevision
<1>4. DraftsFit'
  BY <1>1 DEF MigrationsInv, MigrationsTypeOK, DraftsFit, Containers
<1>5. ApisFollow'
  BY <1>1 DEF MigrationsInv, MigrationsTypeOK, ApisFollow, Containers
<1> QED BY <1>2, <1>3, <1>4, <1>5 DEF MigrationsInv

LEMMA MigrationsKept == MigrationsInv /\ [MigrationsNext]_migrationVars => MigrationsInv'
<1> SUFFICES ASSUME MigrationsInv, [MigrationsNext]_migrationVars PROVE MigrationsInv'
  OBVIOUS
<1>0. LastRevision \in 0..LastRevision /\ Migrator \in Containers /\ Apis \subseteq Containers
      /\ \A c \in Containers : line[c] \in Nat
  BY DEF LastRevision, Containers, MigrationsInv, DraftsFit
<1>1. CASE StartMigrate
  <2>1. \A a \in Apis : stage[a] = "down"
    BY <1>1 DEF StartMigrate, MigrationsInv, ApisFollow
  <2> QED BY <1>0, <1>1, <2>1, RunKept, MigrationsAssumption DEF StartMigrate
<1>2. ASSUME NEW a \in Apis, StartApi(a) PROVE MigrationsInv'
  BY <1>0, <1>2, RunKept, MigrationsAssumption DEF StartApi
<1>3. ASSUME NEW to \in 0..LastRevision, StartDowngrade(to) PROVE MigrationsInv'
  BY <1>0, <1>3, RunKept, MigrationsAssumption DEF StartDowngrade, Quiet
<1>4. ASSUME NEW a \in Apis, Serve(a) \/ StopApi(a) PROVE MigrationsInv'
  BY <1>4, ServingKept
<1>5. ASSUME NEW c \in Containers, Execute(c) PROVE MigrationsInv'
  BY <1>5, ExecuteKept
<1>6. ASSUME NEW c \in Containers, Raise(c) PROVE FALSE
  BY <1>6, NextFits DEF Raise
<1>7. ASSUME NEW c \in Containers, CommitRun(c) PROVE MigrationsInv'
  BY <1>7, CommitRunKept
<1>8. ASSUME NEW c \in Containers, Kill(c) PROVE MigrationsInv'
  BY <1>8, KillKept
<1>9. CASE UNCHANGED migrationVars
  BY <1>9 DEF MigrationsInv, MigrationsTypeOK, SchemaOfRevision, DraftsFit, ApisFollow, migrationVars
<1> QED BY <1>1, <1>2, <1>3, <1>4, <1>5, <1>6, <1>7, <1>8, <1>9 DEF MigrationsNext

LEMMA MigrationsInvImplies == MigrationsInv => SchemaSafe /\ MigrationsTypeOK
<1> SUFFICES ASSUME MigrationsInv PROVE SchemaSafe
  BY DEF MigrationsInv
<1>1. OnlyRacesRaise
  BY DEF OnlyRacesRaise, MigrationsInv, ApisFollow
<1>2. HeadMatchesModels
  BY SchemasAre DEF HeadMatchesModels, MigrationsInv, SchemaOfRevision
<1>3. ServesOnHead
  BY DEF ServesOnHead, MigrationsInv, ApisFollow
<1> QED BY <1>1, <1>2, <1>3 DEF SchemaSafe, MigrationsInv
-----------------------------------------------------------------------------
(* The bot's quota, for any set of users, any limit and any number of      *)
(* referrals required.                                                     *)

(* What FreeCap needs to be inductive: until a public user is unlocked,    *)
(* every collection queued for him has been charged.                       *)
Covered == \A u \in Users : Public(u) => collected[u] <= used[u] \/ Unlocked(u)

QuotaInv == QuotaTypeOK /\ Covered

(* The people recorded as invited by someone.                              *)
Invited(u) == {v \in Users : inviter[v] = u}

(* Every step keeps the types; the columns' bounds depend on the quota     *)
(* check before a charge.                                                  *)
LEMMA QuotaTypesKept ==
  ASSUME QuotaTypeOK, [QuotaNext]_quotaVars
  PROVE  QuotaTypeOK'
<1> USE QuotaAssumption DEF QuotaTypeOK
<1>1. ASSUME NEW u \in Users, NEW r \in Users \cup {None}, Start(u, r)
      PROVE  QuotaTypeOK'
  BY <1>1 DEF Start, RecordReferral, Met
<1>2. ASSUME NEW u \in Users, Blocked(u), awaiting' \subseteq Users PROVE QuotaTypeOK'
  BY <1>2 DEF Blocked, Register
<1>3. ASSUME NEW u \in Users, MayAct(u), Charge(u)
      PROVE  used' \in [Users -> 0..FreeActions]
  BY <1>3 DEF MayAct, Charge
<1>4. ASSUME NEW u \in Users PROVE Charge(u) => \A v \in Users : v # u => used'[v] = used[v]
  BY DEF Charge
<1>5. ASSUME NEW u \in Users, Collect(u) PROVE QuotaTypeOK'
  <2>1. CASE Blocked(u)
    BY <1>5, <2>1, <1>2 DEF Collect
  <2>2. CASE ~Blocked(u)
    <3>1. MayAct(u) /\ Register(u) /\ Charge(u) /\ Submit(u) /\ NamesTarget(u)
          /\ UNCHANGED <<inviter, awaiting>>
      BY <1>5, <2>2 DEF Collect
    <3>2. targets' \in [Users -> Nat] /\ collected' \in [Users -> Nat]
      BY <3>1 DEF NamesTarget, Submit
    <3> QED BY <3>1, <3>2, <1>3, <1>4 DEF Register
  <2> QED BY <2>1, <2>2
<1>6. ASSUME NEW u \in Users, Usage(u) PROVE QuotaTypeOK'
  <2>1. CASE Blocked(u)
    BY <1>6, <2>1, <1>2 DEF Usage
  <2>2. CASE ~Blocked(u)
    <3>1. MayAct(u) /\ Register(u) /\ Charge(u)
          /\ UNCHANGED <<inviter, awaiting, collected, targets>>
      BY <1>6, <2>2 DEF Usage
    <3> QED BY <3>1, <1>3, <1>4 DEF Register
  <2> QED BY <2>1, <2>2
<1>7. ASSUME NEW u \in Users, Other(u) PROVE QuotaTypeOK'
  BY <1>7 DEF Other, Register
<1>8. ASSUME NEW u \in Users, MayAct(u), Charge(u), StartInvestigation(u),
             UNCHANGED inviter, awaiting' \subseteq Users
      PROVE  QuotaTypeOK'
  <2>1. targets' \in [Users -> Nat] /\ collected' \in [Users -> Nat]
    BY <1>8 DEF StartInvestigation, NamesTarget, Submit
  <2>2. used' \in [Users -> 0..FreeActions]
    BY <1>8, <1>3
  <2>3. CASE Public(u)
    <3>1. known' = known \cup {u}
      BY <1>8, <2>3 DEF StartInvestigation, Met, Register
    <3> QED BY <3>1, <2>1, <2>2, <1>4, <1>8
  <2>4. CASE ~Public(u)
    <3>1. used' = used /\ known' \in {known, known \cup {u}}
      BY <1>8, <2>4 DEF StartInvestigation, Met, Register, Charge
    <3> QED BY <3>1, <2>1, <1>8
  <2> QED BY <2>3, <2>4
<1>9. ASSUME NEW u \in Users, Investigate(u) PROVE QuotaTypeOK'
  BY <1>9, <1>2, <1>8 DEF Investigate
<1>10. ASSUME NEW u \in Users, AskTarget(u) PROVE QuotaTypeOK'
  <2>1. CASE Blocked(u) /\ UNCHANGED awaiting
    BY <2>1, <1>2
  <2>2. CASE ~(Blocked(u) /\ UNCHANGED awaiting)
    <3>1. MayAct(u) /\ Met(u) /\ Charge(u) /\ awaiting' = awaiting \cup {u}
          /\ UNCHANGED <<inviter, collected, targets>>
      BY <1>10, <2>2 DEF AskTarget
    <3>2. used' \in [Users -> 0..FreeActions]
      BY <3>1, <1>3
    <3>3. CASE Public(u)
      BY <3>1, <3>2, <3>3, <1>4 DEF Met
    <3>4. CASE ~Public(u)
      BY <3>1, <3>4 DEF Met, Charge
    <3> QED BY <3>3, <3>4
  <2> QED BY <2>1, <2>2
<1>11. ASSUME NEW u \in Users, TargetText(u) PROVE QuotaTypeOK'
  BY <1>11, <1>2, <1>8 DEF TargetText
<1>12. CASE Restart
  BY <1>12 DEF Restart
<1>13. CASE UNCHANGED quotaVars
  BY <1>13 DEF quotaVars
<1> QED BY <1>1, <1>5, <1>6, <1>7, <1>9, <1>10, <1>11, <1>12, <1>13 DEF QuotaNext

(* An inviter, once recorded, is never replaced.                           *)
LEMMA InviterKept ==
  ASSUME QuotaTypeOK, [QuotaNext]_quotaVars, NEW v \in Users, inviter[v] # None
  PROVE  inviter'[v] = inviter[v]
<1>1. ASSUME NEW u \in Users, NEW r \in Users \cup {None}, Start(u, r)
      PROVE  inviter'[v] = inviter[v]
  BY <1>1 DEF Start, RecordReferral, QuotaTypeOK
<1> QED
  BY <1>1 DEF QuotaNext, quotaVars, Collect, Usage, Other, Investigate, AskTarget,
     TargetText, Restart, Blocked

(* So a user's referrals never become fewer, and an unlock is permanent.   *)
LEMMA UnlockKept ==
  ASSUME QuotaTypeOK, [QuotaNext]_quotaVars, NEW u \in Users, Unlocked(u)
  PROVE  Unlocked(u)'
<1>1. \A v \in Users : inviter[v] = u => inviter'[v] = u
  BY InviterKept, QuotaAssumption
<1>2. Invited(u) \subseteq Invited(u)'
  BY <1>1 DEF Invited
<1>3. IsFiniteSet(Invited(u)')
  BY FS_Subset, QuotaAssumption DEF Invited
<1>4. Cardinality(Invited(u)) <= Cardinality(Invited(u)')
  BY <1>2, <1>3, FS_Subset
<1>5. Referrals(u) = Cardinality(Invited(u)) /\ Referrals(u)' = Cardinality(Invited(u)')
  BY DEF Referrals, Invited
<1>6. IsFiniteSet(Invited(u))
  BY <1>2, <1>3, FS_Subset
<1>7. Cardinality(Invited(u)) \in Nat /\ Cardinality(Invited(u)') \in Nat
  BY <1>3, <1>6, FS_CardinalityType
<1> QED BY <1>4, <1>5, <1>7, QuotaAssumption DEF Unlocked

(* The initial states satisfy the inductive invariant.                     *)
LEMMA QuotaStarts == QuotaInit => QuotaInv
BY QuotaAssumption DEF QuotaInit, QuotaInv, QuotaTypeOK, Covered

(* A step that queues a collection for a public user who is not unlocked   *)
(* charges him in the same step.                                           *)
LEMMA ChargesCovered ==
  ASSUME QuotaInv, [QuotaNext]_quotaVars
  PROVE  Covered'
<1>1. SUFFICES ASSUME NEW w \in Users, Public(w), ~Unlocked(w)'
               PROVE  collected'[w] <= used'[w]
  BY DEF Covered, Public
<1>2. ~Unlocked(w) /\ collected[w] <= used[w]
  BY <1>1, UnlockKept DEF QuotaInv, Covered
<1>3. QuotaTypeOK /\ collected[w] \in Nat /\ used[w] \in Nat
  BY <1>1, QuotaAssumption DEF QuotaInv, QuotaTypeOK
<1>4. ASSUME NEW u \in Users, Charge(u),
             collected' \in {collected, [collected EXCEPT ![u] = @ + 1]}
      PROVE  collected'[w] <= used'[w]
  <2>1. CASE u = w
    <3>1. used'[w] = used[w] + 1
      BY <1>1, <1>2, <1>3, <1>4, <2>1 DEF Charge, QuotaTypeOK
    <3>2. collected'[w] \in {collected[w], collected[w] + 1}
      BY <1>3, <1>4, <2>1 DEF QuotaTypeOK
    <3> QED BY <1>2, <1>3, <3>1, <3>2
  <2>2. CASE u # w
    <3>1. used'[w] = used[w] /\ collected'[w] = collected[w]
      BY <1>3, <1>4, <2>2 DEF Charge, QuotaTypeOK
    <3> QED BY <1>2, <3>1
  <2> QED BY <2>1, <2>2
<1>5. CASE used' = used /\ collected' = collected
  BY <1>2, <1>5
<1>6. ASSUME NEW u \in Users, Collect(u) PROVE collected'[w] <= used'[w]
  BY <1>4, <1>5, <1>6 DEF Collect, Blocked, Submit
<1>7. ASSUME NEW u \in Users, Usage(u) PROVE collected'[w] <= used'[w]
  BY <1>4, <1>5, <1>7 DEF Usage, Blocked
<1>8. ASSUME NEW u \in Users, Investigate(u) PROVE collected'[w] <= used'[w]
  BY <1>4, <1>5, <1>8 DEF Investigate, Blocked, StartInvestigation, Submit
<1>9. ASSUME NEW u \in Users, AskTarget(u) PROVE collected'[w] <= used'[w]
  BY <1>4, <1>5, <1>9 DEF AskTarget, Blocked
<1>10. ASSUME NEW u \in Users, TargetText(u) PROVE collected'[w] <= used'[w]
  BY <1>4, <1>5, <1>10 DEF TargetText, Blocked, StartInvestigation, Submit
<1> QED
  BY <1>5, <1>6, <1>7, <1>8, <1>9, <1>10 DEF QuotaNext, Start, Other, Restart, quotaVars

(* Every step of the bot keeps the inductive invariant.                    *)
LEMMA QuotaKept == QuotaInv /\ [QuotaNext]_quotaVars => QuotaInv'
BY QuotaTypesKept, ChargesCovered DEF QuotaInv

(* The inductive invariant holds throughout.                               *)
THEOREM QuotaInvariant == QuotaSpec => []QuotaInv
BY QuotaStarts, QuotaKept, PTL DEF QuotaSpec

(* For every number of users, free actions and required referrals: a       *)
(* public user never gets more than the free collections before enough     *)
(* people have followed his link (check_and_consume in apps/bot/quota.py). *)
THEOREM FreeCapHolds == QuotaSpec => []FreeCap
<1>1. QuotaInv => FreeCap
  BY QuotaAssumption DEF QuotaInv, QuotaTypeOK, Covered, FreeCap
<1> QED BY <1>1, QuotaInvariant, PTL

(* An unlocked user stays unlocked (count_referrals in                     *)
(* database/repositories/users.py counts rows that are never rewritten).   *)
THEOREM UnlockNeverLost == QuotaSpec => UnlockIsPermanent
<1>1. QuotaInv /\ [QuotaNext]_quotaVars =>
        [\A u \in Users : Unlocked(u) => Unlocked(u)']_quotaVars
  BY UnlockKept DEF QuotaInv
<1> QED BY <1>1, QuotaInvariant, PTL DEF QuotaSpec, UnlockIsPermanent

-----------------------------------------------------------------------------
(* The union                                                               *)

\* A behaviour of the union is one of each of its parts, all but one of which
\* stand still.
LEMMA PartsRunAlone ==
    /\ PlatformInit => Init /\ DashboardInit /\ MigrationsInit /\ QuotaInit
    /\ [PlatformNext]_platformVars => /\ [Next]_vars /\ [DashboardNext]_dashboardVars
                                      /\ [MigrationsNext]_migrationVars
                                      /\ [QuotaNext]_quotaVars
BY DEF PlatformInit, PlatformNext, platformVars, vars, dashboardVars, migrationVars, quotaVars

\* A session ends when its user ends it and not by renewing it: while refreshes
\* do not overlap the cookie is a token the server accepts, and a sign-out from
\* such a session leaves nothing behind, whatever requests other tabs send and
\* whatever answers are lost (request and tryRefresh in lib/api.ts, logout).
THEOREM SessionIsSafe == PlatformSpec => []SessionSafe
BY PartsRunAlone, DashboardStart, DashboardKept, DashboardInvImplies, PTL DEF PlatformSpec

\* Whatever containers migrate, whenever they are killed, and in whatever order
\* revisions go up and down: no statement of a revision is refused, a downgrade
\* restores what was there, the last revision has the tables of the models, and
\* only then does an api serve; for any number of apis (upgrade and downgrade of
\* the five revisions, run_migrations_online, entrypoint.sh).
THEOREM SchemaIsSafe == PlatformSpec => []SchemaSafe
BY PartsRunAlone, MigrationsStart, MigrationsKept, MigrationsInvImplies, PTL DEF PlatformSpec

\* The types of the deployment's four parts (the rows and records named in
\* PlatformTypeOK).
THEOREM PlatformTyped == PlatformSpec => []PlatformTypeOK
<1> DEFINE PartsInv == part \in Parts /\ TokensInv /\ DashboardInv /\ MigrationsInv /\ QuotaInv
<1>1. PlatformInit => PartsInv
  BY PartsRunAlone, TokensStart, DashboardStart, MigrationsStart, QuotaStarts DEF PlatformInit
<1>2. PartsInv /\ [PlatformNext]_platformVars => PartsInv'
  <2>1. [PlatformNext]_platformVars => part' = part
    BY DEF PlatformNext, platformVars
  <2> QED BY <2>1, PartsRunAlone, TokensKept, DashboardKept, MigrationsKept, QuotaKept
<1>3. PartsInv => PlatformTypeOK
  BY MigrationsInvImplies DEF TokensInv, DashboardInv, QuotaInv, PlatformTypeOK
<1> QED BY <1>1, <1>2, <1>3, PTL DEF PlatformSpec
=============================================================================
