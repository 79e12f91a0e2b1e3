---------------------------- MODULE SignInProofs ----------------------------
(***************************************************************************)
(* Proofs about SignIn, for every set of browsers, workers and time steps  *)
(* and every bound.                                                        *)
(***************************************************************************)
EXTENDS SignIn, FiniteSetTheorems, TLAPS

-----------------------------------------------------------------------------
(* Rows                                                                    *)

LEMMA FailedRow ==
  ASSUME NEW a \in AccountRows
  PROVE  /\ Failed(a) \in AccountRows
         /\ Failed(a).on = a.on /\ Failed(a).secret = a.secret /\ Failed(a).codes = a.codes
         /\ Failed(a).lock \in {a.lock, "held"}
<1>1. CASE a.fails + 1 >= MaxFailures
  <2>1. [a EXCEPT !.fails = 0, !.lock = "held"] \in AccountRows
    BY DEF AccountRows
  <2> QED BY <1>1, <2>1 DEF Failed, AccountRows
<1>2. CASE ~(a.fails + 1 >= MaxFailures)
  <2>1. [a EXCEPT !.fails = @ + 1] \in AccountRows
    BY DEF AccountRows
  <2> QED BY <1>2, <2>1 DEF Failed, AccountRows
<1> QED BY <1>1, <1>2

LEMMA ResetRow ==
  ASSUME NEW a \in AccountRows
  PROVE  /\ Reset(a) \in AccountRows
         /\ Reset(a).on = a.on /\ Reset(a).secret = a.secret /\ Reset(a).codes = a.codes
         /\ Reset(a).lock = "none"
BY DEF Reset, AccountRows

LEMMA LastRow ==
  ASSUME NEW a \in AccountRows, NEW s \in TimeSteps
  PROVE  /\ [a EXCEPT !.last = s] \in AccountRows
         /\ [a EXCEPT !.last = s].on = a.on /\ [a EXCEPT !.last = s].secret = a.secret
         /\ [a EXCEPT !.last = s].codes = a.codes /\ [a EXCEPT !.last = s].lock = a.lock
BY DEF AccountRows

LEMMA WithoutRow ==
  ASSUME NEW a \in AccountRows, NEW c
  PROVE  /\ Without(a, c) \in AccountRows
         /\ Without(a, c).on = a.on /\ Without(a, c).secret = a.secret
         /\ Without(a, c).lock = a.lock /\ Without(a, c).codes = a.codes \ {c}
BY DEF Without, AccountRows

LEMMA DisabledRow ==
  ASSUME NEW a \in AccountRows
  PROVE  /\ Disabled(a) \in AccountRows
         /\ Disabled(a).on = FALSE /\ Disabled(a).codes = {} /\ Disabled(a).lock = a.lock
BY DEF Disabled, AccountRows

LEMMA SetupRow ==
  ASSUME NEW a \in AccountRows, NEW k \in Secrets
  PROVE  LET b == [a EXCEPT !.secret = k, !.on = FALSE] IN
         /\ b \in AccountRows
         /\ b.on = FALSE /\ b.codes = a.codes /\ b.lock = a.lock
BY DEF AccountRows

LEMMA EnabledRow ==
  ASSUME NEW a \in AccountRows, NEW s \in TimeSteps,
         made.codes + 1..made.codes + SetSize \in SUBSET Codes
  PROVE  /\ Enabled(a, s) \in AccountRows
         /\ Enabled(a, s).on = TRUE /\ Enabled(a, s).secret = a.secret
         /\ Enabled(a, s).lock = a.lock
         /\ Enabled(a, s).codes = made.codes + 1..made.codes + SetSize
BY DEF Enabled, AccountRows

(* A column is the one that was there unless the request changes it.       *)
LEMMA WrittenRow ==
  ASSUME account \in AccountRows, NEW s \in AccountRows, NEW n \in AccountRows
  PROVE  LET x == Written(s, n) IN
         /\ x \in AccountRows
         /\ x.on = IF n.on # s.on THEN n.on ELSE account.on
         /\ x.secret = IF n.secret # s.secret THEN n.secret ELSE account.secret
         /\ x.lock = IF n.lock # s.lock THEN n.lock ELSE account.lock
         /\ x.codes = IF n.codes # s.codes THEN n.codes ELSE account.codes
BY DEF Written, AccountRows

-----------------------------------------------------------------------------
(* The invariant                                                           *)

(* Secrets and codes are there for the requests that are still to make     *)
(* them.                                                                   *)
Counted ==
  /\ made.secrets + Cardinality(UnderWay("setup")) <= MaxSecrets
  /\ made.codes + SetSize * Cardinality(UnderWay("enable")) <= MaxCodes

(* What a request has read let it in, whatever has become of it since.     *)
LetIn(r) ==
  /\ r.op \in {"setup", "enable"} => ~r.seen.on
  /\ r.op \in {"verify", "disable"} => r.seen.on
  /\ r.op \in {"verify", "enable"} => r.seen.secret # None
  /\ r.op \notin {"setup", "enable"} => ~Locked(r.seen)
  /\ r.seen.codes \subseteq 1..made.codes

Reads == \A w \in Busy : LetIn(req[w])

CodesMade == account.codes \subseteq 1..made.codes /\ dead \subseteq 1..made.codes

(* While nothing has overlapped that should not: no secret is replaced     *)
(* under a request that switches the factor on, none is set up under a     *)
(* factor that is on.                                                      *)
Enrolled ==
  "enrolment" \notin crossed =>
    /\ \A v, w \in Busy : req[v].op = "enable" => req[w].op \notin {"setup", "disable"}
    /\ \A w \in Busy : req[w].op = "enable" => req[w].seen.secret = account.secret
    /\ \A w \in Busy : req[w].op = "setup" => ~account.on
    /\ account.on => account.secret \in proven

(* While no verification has overlapped with another request that writes   *)
(* the list: no list that will be written holds a dead code.               *)
Recovered ==
  "recovery" \notin crossed =>
    /\ \A v, w \in Busy : v # w /\ req[v].op = "verify" =>
                             req[w].op \notin {"verify", "enable", "disable"}
    /\ \A w \in Busy : req[w].op = "verify" => req[w].seen.codes \intersect dead = {}
    /\ account.codes \intersect dead = {}

Inv == TypeOK /\ Counted /\ Reads /\ CodesMade /\ Enrolled /\ Recovered

-----------------------------------------------------------------------------
(* Requests under way                                                      *)

LEMMA AtType ==
  ASSUME TypeOK, NEW w \in Workers, req[w] # None
  PROVE  /\ req[w] \in Requests /\ req[w].op \in Ops /\ req[w].dev \in Browsers
         /\ req[w].seen \in AccountRows /\ w \in Busy
<1>1. req[w] \in Requests
  BY DEF TypeOK
<1> QED BY <1>1 DEF Requests, Busy

LEMMA CountType ==
  ASSUME NEW op
  PROVE  IsFiniteSet(UnderWay(op)) /\ Cardinality(UnderWay(op)) \in Nat
<1>1. UnderWay(op) \in SUBSET Workers
  BY DEF UnderWay, Busy
<1>2. IsFiniteSet(UnderWay(op))
  BY <1>1, FS_Subset, SignInAssumption
<1> QED BY <1>2, FS_CardinalityType

LEMMA OneAtLeast ==
  ASSUME NEW w \in Busy
  PROVE  Cardinality(UnderWay(req[w].op)) \in Nat \ {0}
<1> DEFINE U == UnderWay(req[w].op)
<1>1. w \in U
  BY DEF UnderWay
<1>2. IsFiniteSet(U) /\ Cardinality(U) \in Nat
  BY CountType
<1> HIDE DEF U
<1>3. Cardinality(U) # 0
  BY <1>1, <1>2, FS_EmptySet
<1> QED BY <1>2, <1>3 DEF U

LEMMA Over ==
  ASSUME TypeOK, NEW w \in Workers, req[w] # None, req' = [req EXCEPT ![w] = None]
  PROVE  /\ req' \in [Workers -> Requests \union {None}]
         /\ Busy' = Busy \ {w}
         /\ \A v \in Busy' : v \in Busy /\ v # w /\ req'[v] = req[v]
         /\ \A op : UnderWay(op)' = UnderWay(op) \ {w}
         /\ \A op : Cardinality(UnderWay(op)') =
                     IF req[w].op = op THEN Cardinality(UnderWay(op)) - 1
                     ELSE Cardinality(UnderWay(op))
<1>1. /\ req' \in [Workers -> Requests \union {None}]
      /\ \A v \in Workers : req'[v] = IF v = w THEN None ELSE req[v]
  BY DEF TypeOK
<1>2. Busy' = Busy \ {w}
  BY <1>1 DEF Busy
<1>3. \A v \in Busy' : v \in Busy /\ v # w /\ req'[v] = req[v]
  BY <1>1, <1>2 DEF Busy
<1>4. ASSUME NEW op PROVE UnderWay(op)' = UnderWay(op) \ {w}
  BY <1>2, <1>3 DEF UnderWay
<1>5. ASSUME NEW op
      PROVE  Cardinality(UnderWay(op)') =
               IF req[w].op = op THEN Cardinality(UnderWay(op)) - 1
               ELSE Cardinality(UnderWay(op))
  <2>1. w \in UnderWay(op) <=> req[w].op = op
    BY DEF UnderWay, Busy
  <2> QED BY <1>4, <2>1, CountType, FS_RemoveElement
<1> QED BY <1>1, <1>2, <1>3, <1>4, <1>5

-----------------------------------------------------------------------------
(* What a request leaves behind                                            *)

Untouched == account'.on = account.on /\ account'.secret = account.secret
SameCodes == account'.codes = account.codes

LeavesAlone == Untouched /\ SameCodes /\ UNCHANGED <<made, proven, dead>>

SetsUp(r) ==
  /\ r.op = "setup"
  /\ made' = [made EXCEPT !.secrets = @ + 1]
  /\ account'.on = account.on /\ SameCodes /\ UNCHANGED <<proven, dead>>

SwitchesOn(r) ==
  /\ r.op = "enable"
  /\ made' = [made EXCEPT !.codes = @ + SetSize]
  /\ account'.on /\ account'.secret = account.secret
  /\ account'.codes = made.codes + 1..made.codes + SetSize
  /\ dead' = dead \union 1..made.codes
  /\ proven' = proven \union {r.seen.secret}

SwitchesOff(r) ==
  /\ r.op = "disable" /\ ~account'.on
  /\ account'.codes = {} \/ (r.seen.codes = {} /\ SameCodes)
  /\ dead' = dead \union r.seen.codes
  /\ UNCHANGED <<made, proven>>

UsesUp(r) ==
  /\ r.op = "verify" /\ Untouched
  /\ \E c \in r.seen.codes :
       account'.codes = r.seen.codes \ {c} /\ dead' = dead \union {c}
  /\ UNCHANGED <<made, proven>>

Outcome(w) ==
  /\ req[w] # None /\ req' = [req EXCEPT ![w] = None]
  /\ UNCHANGED <<spent, crossed>>
  /\ LeavesAlone \/ SetsUp(req[w]) \/ SwitchesOn(req[w]) \/ SwitchesOff(req[w]) \/ UsesUp(req[w])
  /\ Locked(account) /\ ~Locked(account') => req[w].seen.lock = "over"

Typed ==
  /\ account' \in AccountRows
  /\ session' \subseteq Browsers /\ interim' \subseteq Browsers
  /\ misses' \in Nat /\ uses' \in Uses
  /\ proven' \subseteq Secrets /\ dead' \subseteq Codes

LEMMA UsedType ==
  ASSUME TypeOK, NEW a, NEW s, Used(a, s)
  PROVE  uses' \in Uses
<1>1. /\ uses \in Uses
      /\ uses.of \in [Secrets \X TimeSteps -> Nat] /\ uses.all \in Nat
  BY DEF TypeOK, Uses
<1>2. [uses.of EXCEPT ![<<a.secret, s>>] = @ + 1] \in [Secrets \X TimeSteps -> Nat]
  <2>1. \A c \in Secrets \X TimeSteps : uses.of[c] + 1 \in Nat
    BY <1>1
  <2> QED BY <1>1, <2>1
<1>3. uses' = [uses EXCEPT !.of = [uses.of EXCEPT ![<<a.secret, s>>] = @ + 1], !.all = @ + 1]
  BY DEF Used
<1>4. uses.all + 1 \in Nat
  BY <1>1
<1> QED BY <1>1, <1>2, <1>3, <1>4 DEF Uses

(* What a commit leaves of a row, and of a lock.                           *)
LEMMA EndsRow ==
  ASSUME TypeOK, Reads, NEW w \in Workers, req[w] # None, NEW n \in AccountRows, Ends(w, n),
         \/ n.lock = req[w].seen.lock
         \/ req[w].op \notin {"setup", "enable"} /\ n.lock \in {"none", "held"}
  PROVE  LET a == req[w].seen IN
         /\ a \in AccountRows
         /\ account' \in AccountRows
         /\ account'.on = IF n.on # a.on THEN n.on ELSE account.on
         /\ account'.secret = IF n.secret # a.secret THEN n.secret ELSE account.secret
         /\ account'.codes = IF n.codes # a.codes THEN n.codes ELSE account.codes
         /\ Locked(account) /\ ~Locked(account') => a.lock = "over"
<1> DEFINE a == req[w].seen
<1>1. account \in AccountRows /\ a \in AccountRows /\ w \in Busy
  BY AtType DEF TypeOK
<1>2. account' = Written(a, n)
  BY DEF Ends
<1>3. account'.lock = IF n.lock # a.lock THEN n.lock ELSE account.lock
  BY <1>1, <1>2, WrittenRow
<1>4. req[w].op \notin {"setup", "enable"} => a.lock # "held"
  BY <1>1 DEF Reads, LetIn, Locked
<1>5. a.lock \in {"none", "held", "over"}
  BY <1>1 DEF AccountRows
<1>6. Locked(account) /\ ~Locked(account') => a.lock = "over"
  BY <1>3, <1>4, <1>5 DEF Locked
<1> QED BY <1>1, <1>2, <1>6, WrittenRow

(* A request that leaves the factor and the codes alone.                   *)
LEMMA PlainRow ==
  ASSUME TypeOK, Reads, NEW w \in Workers, req[w] # None,
         req[w].op \notin {"setup", "enable"},
         NEW n \in AccountRows, Ends(w, n),
         n.on = req[w].seen.on, n.secret = req[w].seen.secret, n.codes = req[w].seen.codes,
         n.lock \in {"none", "held", req[w].seen.lock},
         UNCHANGED <<made, proven, dead, crossed>>
  PROVE  account' \in AccountRows /\ Outcome(w)
<1>1. /\ account' \in AccountRows
      /\ Untouched /\ SameCodes
      /\ Locked(account) /\ ~Locked(account') => req[w].seen.lock = "over"
  BY EndsRow DEF Untouched, SameCodes
<1> QED BY <1>1 DEF Outcome, LeavesAlone, Ends

LEMMA AnswerOutcome ==
  ASSUME TypeOK, Counted, Reads, CodesMade, NEW w \in Workers, Answer(w)
  PROVE  Typed /\ Outcome(w)
<1> DEFINE r == req[w]
<1>0. r # None
  BY DEF Answer, WrongPassword, PasswordAlone, PasswordSuffices, ChangePassword, WrongCode,
         Setup, Disable, Refused, RightCode, Enable, RecoveryCode, At
<1>1. /\ r \in Requests /\ r.op \in Ops /\ r.dev \in Browsers /\ r.seen \in AccountRows
      /\ w \in Busy /\ LetIn(r)
  BY <1>0, AtType DEF Reads
<1>t. /\ account \in AccountRows /\ session \subseteq Browsers /\ interim \subseteq Browsers
      /\ misses \in Nat /\ uses \in Uses
      /\ proven \subseteq Secrets /\ dead \subseteq Codes
      /\ made \in [secrets : 0..MaxSecrets, codes : 0..MaxCodes]
  BY DEF TypeOK
<1>m. ASSUME Misses(w), r.op \notin {"setup", "enable"} PROVE Typed /\ Outcome(w)
  <2> DEFINE n == Failed(r.seen)
  <2>1. /\ n \in AccountRows
        /\ n.on = r.seen.on /\ n.secret = r.seen.secret /\ n.codes = r.seen.codes
        /\ n.lock \in {"none", "held", r.seen.lock}
    BY <1>1, FailedRow
  <2>2. Ends(w, n) /\ UNCHANGED <<session, interim, made, proven, dead, uses, crossed>>
    BY <1>m DEF Misses
  <2>3. account' \in AccountRows /\ Outcome(w)
    BY <1>0, <1>m, <2>1, <2>2, PlainRow
  <2>4. misses' \in Nat
    BY <1>m, <1>t DEF Misses
  <2> QED BY <1>t, <2>2, <2>3, <2>4 DEF Typed
<1>p. ASSUME Ends(w, Reset(r.seen)), r.op \notin {"setup", "enable"}, misses' = 0,
             session' \subseteq Browsers, interim' \subseteq Browsers,
             UNCHANGED <<made, proven, dead, uses, crossed>>
      PROVE  Typed /\ Outcome(w)
  <2>1. account' \in AccountRows /\ Outcome(w)
    BY <1>0, <1>1, <1>p, ResetRow, PlainRow
  <2> QED BY <1>t, <1>p, <2>1 DEF Typed
<1>2. CASE WrongPassword(w)
  BY <1>2, <1>m DEF WrongPassword, At
<1>3. CASE WrongCode(w)
  BY <1>3, <1>m DEF WrongCode, At
<1>4. CASE PasswordAlone(w)
  BY <1>1, <1>t, <1>4, <1>p DEF PasswordAlone, At
<1>5. CASE PasswordSuffices(w)
  BY <1>1, <1>t, <1>5, <1>p DEF PasswordSuffices, At
<1>6. CASE ChangePassword(w)
  BY <1>1, <1>t, <1>6, <1>p DEF ChangePassword, At
<1>7. CASE Refused(w)
  <2>1. Typed
    BY <1>7, <1>t DEF Refused, history, Typed
  <2>2. Outcome(w)
    BY <1>7 DEF Refused, history, Outcome, LeavesAlone, Untouched, SameCodes
  <2> QED BY <2>1, <2>2
<1>8. ASSUME NEW s \in TimeSteps, RightCode(w, s) PROVE Typed /\ Outcome(w)
  <2> DEFINE n == [Reset(r.seen) EXCEPT !.last = s]
  <2>1. /\ n \in AccountRows /\ n.lock = "none"
        /\ n.on = r.seen.on /\ n.secret = r.seen.secret /\ n.codes = r.seen.codes
    BY <1>1, ResetRow, LastRow
  <2>2. /\ r.op = "verify" /\ Ends(w, n) /\ misses' = 0 /\ Used(r.seen, s)
        /\ Enters(r.dev) /\ UNCHANGED <<made, proven, dead, crossed>>
    BY <1>8 DEF RightCode, At
  <2>3. account' \in AccountRows /\ Outcome(w)
    BY <1>0, <2>1, <2>2, PlainRow
  <2>4. uses' \in Uses
    BY <2>2, UsedType
  <2> QED BY <1>1, <1>t, <2>2, <2>3, <2>4 DEF Typed, Enters
<1>9. ASSUME NEW c \in Codes, RecoveryCode(w, c) PROVE Typed /\ Outcome(w)
  <2> DEFINE n == Without(Reset(r.seen), c)
  <2>1. /\ n \in AccountRows /\ n.lock = "none"
        /\ n.on = r.seen.on /\ n.secret = r.seen.secret /\ n.codes = r.seen.codes \ {c}
    BY <1>1, ResetRow, WithoutRow
  <2>2. /\ r.op = "verify" /\ c \in r.seen.codes /\ Ends(w, n) /\ misses' = 0
        /\ dead' = dead \union {c} /\ Enters(r.dev)
        /\ UNCHANGED <<made, proven, uses, crossed>>
    BY <1>9 DEF RecoveryCode, At
  <2>3. /\ account' \in AccountRows
        /\ Untouched /\ account'.codes = r.seen.codes \ {c}
        /\ Locked(account) /\ ~Locked(account') => r.seen.lock = "over"
    BY <1>0, <2>1, <2>2, EndsRow DEF Untouched
  <2>4. Outcome(w)
    BY <1>0, <2>2, <2>3 DEF Outcome, UsesUp, Ends
  <2> QED BY <1>1, <1>t, <2>2, <2>3, <2>4 DEF Typed, Enters
<1>10. CASE Setup(w)
  <2> DEFINE new == made.secrets + 1
             n == [r.seen EXCEPT !.secret = new, !.on = FALSE]
  <2>1. /\ r.op = "setup" /\ Ends(w, n) /\ made' = [made EXCEPT !.secrets = new]
        /\ UNCHANGED <<session, interim, misses, proven, dead, uses, crossed>>
    BY <1>10 DEF Setup, At
  <2>2. new \in Secrets
    <3>1. Cardinality(UnderWay("setup")) \in Nat \ {0}
      BY <1>1, <2>1, OneAtLeast
    <3> QED BY <1>t, <3>1, SignInAssumption DEF Counted, Secrets
  <2>3. n \in AccountRows /\ n.on = FALSE /\ n.codes = r.seen.codes /\ n.lock = r.seen.lock
    BY <1>1, <2>2, SetupRow
  <2>4. r.seen.on = FALSE
    BY <1>1, <2>1 DEF LetIn, AccountRows
  <2>5. /\ account' \in AccountRows
        /\ account'.on = account.on /\ account'.codes = account.codes
        /\ Locked(account) /\ ~Locked(account') => r.seen.lock = "over"
    <3>1. /\ account' \in AccountRows
          /\ account'.on = IF n.on # r.seen.on THEN n.on ELSE account.on
          /\ account'.codes = IF n.codes # r.seen.codes THEN n.codes ELSE account.codes
          /\ Locked(account) /\ ~Locked(account') => r.seen.lock = "over"
      <4> HIDE DEF n
      <4> QED BY <1>0, <2>1, <2>3, EndsRow
    <3> QED BY <2>3, <2>4, <3>1
  <2>6. Outcome(w)
    BY <1>0, <2>1, <2>5 DEF Outcome, SetsUp, SameCodes, Ends
  <2> QED BY <1>t, <2>1, <2>5, <2>6 DEF Typed
<1>11. ASSUME NEW s \in TimeSteps, Enable(w, s) PROVE Typed /\ Outcome(w)
  <2> DEFINE fresh == made.codes + 1..made.codes + SetSize
             n == Enabled(r.seen, s)
  <2>1. /\ r.op = "enable" /\ Ends(w, n)
        /\ made' = [made EXCEPT !.codes = @ + SetSize]
        /\ dead' = dead \union 1..made.codes
        /\ proven' = proven \union {r.seen.secret}
        /\ Used(r.seen, s)
        /\ session' \in {session, session \union {r.dev}}
        /\ interim' \in {interim, interim \ {r.dev}}
        /\ UNCHANGED <<misses, crossed>>
    BY <1>11 DEF Enable, At, Enters
  <2>2. SetSize \in Nat \ {0} /\ made.codes \in Nat /\ made.codes + SetSize <= MaxCodes
    <3>1. Cardinality(UnderWay("enable")) \in Nat \ {0}
      BY <1>1, <2>1, OneAtLeast
    <3>2. /\ SetSize \in Nat \ {0} /\ MaxCodes \in Nat /\ made.codes \in Nat
          /\ made.codes + SetSize * Cardinality(UnderWay("enable")) <= MaxCodes
      BY <1>t, SignInAssumption DEF Counted
    <3>3. \A k \in Nat \ {0} : SetSize <= SetSize * k
      BY <3>2
    <3> QED BY <3>1, <3>2, <3>3
  <2>3. fresh \subseteq Codes /\ 1..made.codes \subseteq Codes
    BY <2>2, SignInAssumption DEF Codes
  <2>4. /\ n \in AccountRows /\ n.on = TRUE /\ n.secret = r.seen.secret
        /\ n.lock = r.seen.lock /\ n.codes = fresh
    BY <1>1, <2>3, EnabledRow
  <2>5. r.seen.on = FALSE /\ r.seen.secret \in Secrets /\ fresh # r.seen.codes
    <3>1. r.seen.codes \subseteq 1..made.codes /\ made.codes + 1 \in fresh
      BY <1>1, <2>2 DEF LetIn
    <3>2. made.codes + 1 \notin 1..made.codes
      BY <2>2
    <3> QED BY <1>1, <2>1, <3>1, <3>2 DEF LetIn, AccountRows
  <2>6. /\ account' \in AccountRows
        /\ account'.on = TRUE /\ account'.secret = account.secret /\ account'.codes = fresh
        /\ Locked(account) /\ ~Locked(account') => r.seen.lock = "over"
    BY <1>0, <2>1, <2>4, <2>5, EndsRow
  <2>7. Outcome(w)
    BY <1>0, <2>1, <2>6 DEF Outcome, SwitchesOn, Ends
  <2>8. uses' \in Uses
    BY <2>1, UsedType
  <2>9. proven' \subseteq Secrets /\ dead' \subseteq Codes
    BY <1>t, <2>1, <2>3, <2>5
  <2> QED BY <1>1, <1>t, <2>1, <2>6, <2>7, <2>8, <2>9 DEF Typed
<1>12. CASE Disable(w)
  <2>1. /\ r.op = "disable" /\ misses' = 0 /\ dead' = dead \union r.seen.codes
        /\ UNCHANGED <<session, interim, made, proven, crossed>>
    BY <1>12 DEF Disable, At
  <2>2. PICK n \in AccountRows :
          /\ Ends(w, n) /\ n.on = FALSE /\ n.codes = {} /\ n.lock = "none"
          /\ uses' \in Uses
    <3> DEFINE d == Disabled(Reset(r.seen))
    <3>1. d \in AccountRows /\ d.on = FALSE /\ d.codes = {} /\ d.lock = "none"
      BY <1>1, ResetRow, DisabledRow
    <3>2. ASSUME NEW s \in TimeSteps, Ends(w, [d EXCEPT !.last = s]), Used(r.seen, s)
          PROVE  \E n \in AccountRows :
                   /\ Ends(w, n) /\ n.on = FALSE /\ n.codes = {} /\ n.lock = "none"
                   /\ uses' \in Uses
      <4>1. uses' \in Uses
        BY <3>2, UsedType
      <4>2. LET n == [d EXCEPT !.last = s] IN
            n \in AccountRows /\ n.on = FALSE /\ n.codes = {} /\ n.lock = "none"
        BY <3>1, LastRow
      <4> QED BY <3>2, <4>1, <4>2
    <3>3. CASE Ends(w, d) /\ UNCHANGED uses
      BY <1>t, <3>1, <3>3
    <3> QED BY <1>12, <3>2, <3>3 DEF Disable
  <2>3. r.seen.on = TRUE
    BY <1>1, <2>1 DEF LetIn, AccountRows
  <2>4. /\ account' \in AccountRows
        /\ account'.on = FALSE
        /\ account'.codes = IF r.seen.codes # {} THEN {} ELSE account.codes
        /\ Locked(account) /\ ~Locked(account') => r.seen.lock = "over"
    BY <1>0, <2>1, <2>2, <2>3, EndsRow
  <2>5. Outcome(w)
    BY <1>0, <2>1, <2>2, <2>4 DEF Outcome, SwitchesOff, SameCodes, Ends
  <2>6. r.seen.codes \subseteq Codes
    BY <1>1 DEF AccountRows
  <2> QED BY <1>t, <2>1, <2>2, <2>4, <2>5, <2>6 DEF Typed
<1> QED BY <1>2, <1>3, <1>4, <1>5, <1>6, <1>7, <1>8, <1>9, <1>10, <1>11, <1>12 DEF Answer

-----------------------------------------------------------------------------
(* The invariant holds at the start                                        *)

LEMMA InvInit == ASSUME Init PROVE Inv
<1>0. /\ account \in AccountRows
      /\ IF account.on THEN account.secret = 1 /\ account.codes = 1..SetSize
         ELSE account.secret = None /\ account.codes = {}
      /\ made = [secrets |-> IF account.on THEN 1 ELSE 0,
                 codes |-> IF account.on THEN SetSize ELSE 0]
  BY StartAssumption DEF Init
<1>1. account.on => 1 \in Secrets /\ 1..SetSize \subseteq Codes
  BY <1>0, SignInAssumption DEF AccountRows, Secrets
<1>2. account.on => 1 <= MaxSecrets /\ SetSize <= MaxCodes
  <2>1. SetSize \in 1..SetSize
    BY SignInAssumption
  <2> QED BY <1>1, <2>1, SignInAssumption DEF Secrets, Codes
<1>3. made \in [secrets : 0..MaxSecrets, codes : 0..MaxCodes]
  BY <1>0, <1>2, SignInAssumption
<1>4. misses \in Nat
  BY <1>0 DEF Init, AccountRows
<1>5. proven \subseteq Secrets /\ (account.on => account.secret \in proven)
  BY <1>0, <1>1 DEF Init
<1>6. Busy = {}
  BY DEF Init, Busy
<1>7. TypeOK
  <2>1. uses \in Uses
    BY DEF Init, Uses
  <2> QED BY <1>0, <1>3, <1>4, <1>5, <2>1, SignInAssumption DEF Init, TypeOK
<1>8. Counted
  <2>1. \A op : Cardinality(UnderWay(op)) = 0
    BY <1>6, FS_EmptySet DEF UnderWay
  <2> QED BY <1>3, <2>1, SignInAssumption DEF Counted
<1>9. CodesMade
  <2>1. dead = {} /\ made.codes = IF account.on THEN SetSize ELSE 0
    BY <1>0 DEF Init
  <2> QED BY <1>0, <2>1 DEF CodesMade
<1> QED BY <1>5, <1>6, <1>7, <1>8, <1>9 DEF Inv, Reads, Enrolled, Recovered, Init

-----------------------------------------------------------------------------
(* A request begins                                                        *)

LEMMA BeginFacts ==
  ASSUME TypeOK, NEW w \in Workers, NEW b \in Browsers, NEW op \in Ops, Begin(w, b, op)
  PROVE  /\ req' \in [Workers -> Requests \union {None}]
         /\ req'[w].op = op /\ req'[w].seen = account
         /\ Busy' = Busy \union {w} /\ w \notin Busy
         /\ \A v \in Busy : req'[v] = req[v]
         /\ UnderWay(op)' = UnderWay(op) \union {w}
         /\ \A o : o # op => UnderWay(o)' = UnderWay(o)
<1> DEFINE r == [op |-> op, dev |-> b, by |-> Way(op, b), seen |-> account]
<1>1. r \in Requests /\ r # None
  <2>1. Way(op, b) \in {"session", "interim", "none"}
    BY DEF Way
  <2>2. r \in Requests
    BY <2>1 DEF TypeOK, Requests
  <2> QED BY <2>2, SignInAssumption
<1>2. req[w] = None /\ req' = [req EXCEPT ![w] = r]
  BY DEF Begin
<1>3. r.op = op /\ r.seen = account
  OBVIOUS
<1> HIDE DEF r
<1>4. /\ req' \in [Workers -> Requests \union {None}]
      /\ \A v \in Workers : req'[v] = IF v = w THEN r ELSE req[v]
  BY <1>1, <1>2 DEF TypeOK
<1>5. Busy' = Busy \union {w} /\ w \notin Busy
  BY <1>1, <1>2, <1>4 DEF Busy
<1>6. \A v \in Busy : req'[v] = req[v]
  BY <1>4, <1>5 DEF Busy
<1>7. req'[w] = r
  BY <1>4
<1>8. UnderWay(op)' = UnderWay(op) \union {w}
  BY <1>3, <1>5, <1>6, <1>7 DEF UnderWay
<1>9. ASSUME NEW o, o # op PROVE UnderWay(o)' = UnderWay(o)
  BY <1>3, <1>5, <1>6, <1>7, <1>9 DEF UnderWay
<1> QED BY <1>3, <1>4, <1>5, <1>6, <1>7, <1>8, <1>9

LEMMA BeginInv ==
  ASSUME Inv, NEW w \in Workers, NEW b \in Browsers, NEW op \in Ops, Begin(w, b, op)
  PROVE  Inv'
<1>0. /\ TypeOK /\ Counted /\ Reads /\ CodesMade /\ Enrolled /\ Recovered
      /\ Admits(op, b) /\ Left(op)
      /\ spent' = [spent EXCEPT !.requests = @ + 1] /\ spent.requests < MaxRequests
      /\ crossed' = crossed \union Crossings(op)
      /\ UNCHANGED <<account, session, interim, made, misses, proven, dead, uses>>
  BY DEF Inv, Begin
<1>1. /\ req' \in [Workers -> Requests \union {None}]
      /\ req'[w].op = op /\ req'[w].seen = account
      /\ Busy' = Busy \union {w} /\ w \notin Busy
      /\ \A v \in Busy : req'[v] = req[v]
      /\ UnderWay(op)' = UnderWay(op) \union {w}
      /\ \A o : o # op => UnderWay(o)' = UnderWay(o)
  BY <1>0, BeginFacts
<1>2. TypeOK'
  <2>1. spent' \in [requests : 0..MaxRequests, ends : 0..MaxEnds]
    BY <1>0, SignInAssumption DEF TypeOK
  <2>2. crossed' \subseteq {"enrolment", "recovery"}
    BY <1>0 DEF TypeOK, Crossings
  <2> QED BY <1>0, <1>1, <2>1, <2>2 DEF TypeOK
<1>3. Counted'
  <2>1. Cardinality(UnderWay(op)') = Cardinality(UnderWay(op)) + 1
    <3>1. w \notin UnderWay(op)
      BY <1>1 DEF UnderWay
    <3> QED BY <1>1, <3>1, CountType, FS_AddElement
  <2>2. /\ made.secrets + Cardinality(UnderWay("setup")) <= MaxSecrets
        /\ made.codes + SetSize * Cardinality(UnderWay("enable")) <= MaxCodes
    BY <1>0 DEF Counted
  <2>3. /\ made.secrets \in Nat /\ MaxSecrets \in Nat
        /\ \A o : Cardinality(UnderWay(o)) \in Nat
    BY <1>0, CountType, SignInAssumption DEF TypeOK
  <2>4. made.secrets + Cardinality(UnderWay("setup")') <= MaxSecrets
    <3>1. CASE op = "setup"
      BY <1>0, <2>1, <2>3, <3>1 DEF Left
    <3>2. CASE op # "setup"
      BY <1>1, <2>2, <3>2
    <3> QED BY <3>1, <3>2
  <2>5. made.codes + SetSize * Cardinality(UnderWay("enable")') <= MaxCodes
    <3>1. CASE op = "enable"
      BY <1>0, <2>1, <3>1 DEF Left
    <3>2. CASE op # "enable"
      BY <1>1, <2>2, <3>2
    <3> QED BY <3>1, <3>2
  <2> QED BY <1>0, <2>4, <2>5 DEF Counted
<1>4. Reads'
  <2>1. ASSUME NEW v \in Busy PROVE LetIn(req[v])'
    BY <1>0, <1>1 DEF Reads, LetIn, Locked
  <2>2. LetIn(req[w])'
    BY <1>0, <1>1 DEF LetIn, Admits, HasFactor, Locked, CodesMade, Ops
  <2> QED BY <1>1, <2>1, <2>2 DEF Reads
<1>5. CodesMade'
  BY <1>0 DEF CodesMade
<1>6. Enrolled'
  <2> SUFFICES ASSUME "enrolment" \notin crossed'
               PROVE  /\ \A v, x \in Busy' : req'[v].op = "enable" =>
                                              req'[x].op \notin {"setup", "disable"}
                      /\ \A v \in Busy' : req'[v].op = "enable" =>
                                           req'[v].seen.secret = account.secret
                      /\ \A v \in Busy' : req'[v].op = "setup" => ~account.on
                      /\ account.on => account.secret \in proven
    BY <1>0 DEF Enrolled
  <2>1. \A v \in Busy : {op, req[v].op} \notin Enrolment
    BY <1>0 DEF Crossings
  <2>2. /\ \A v, x \in Busy : req[v].op = "enable" => req[x].op \notin {"setup", "disable"}
        /\ \A v \in Busy : req[v].op = "enable" => req[v].seen.secret = account.secret
        /\ \A v \in Busy : req[v].op = "setup" => ~account.on
        /\ account.on => account.secret \in proven
    BY <1>0 DEF Enrolled
  <2>3. \A v \in Busy : op = "enable" => req[v].op \notin {"setup", "disable"}
    BY <2>1 DEF Enrolment
  <2>4. \A v \in Busy : req[v].op = "enable" => op \notin {"setup", "disable"}
    BY <2>1 DEF Enrolment
  <2>5. op = "setup" => ~account.on
    BY <1>0 DEF Admits
  <2> QED BY <1>1, <2>2, <2>3, <2>4, <2>5
<1>7. Recovered'
  <2> SUFFICES ASSUME "recovery" \notin crossed'
               PROVE  /\ \A v, x \in Busy' : v # x /\ req'[v].op = "verify" =>
                                         req'[x].op \notin {"verify", "enable", "disable"}
                      /\ \A v \in Busy' : req'[v].op = "verify" =>
                                         req'[v].seen.codes \intersect dead = {}
                      /\ account.codes \intersect dead = {}
    BY <1>0 DEF Recovered
  <2>1. \A v \in Busy : {op, req[v].op} \notin Recovery
    BY <1>0 DEF Crossings
  <2>2. /\ \A v, x \in Busy : v # x /\ req[v].op = "verify" =>
                             req[x].op \notin {"verify", "enable", "disable"}
        /\ \A v \in Busy : req[v].op = "verify" => req[v].seen.codes \intersect dead = {}
        /\ account.codes \intersect dead = {}
    BY <1>0 DEF Recovered
  <2>3. \A v \in Busy : op = "verify" => req[v].op \notin {"verify", "enable", "disable"}
    BY <2>1 DEF Recovery
  <2>4. \A v \in Busy : req[v].op = "verify" => op \notin {"verify", "enable", "disable"}
    BY <2>1 DEF Recovery
  <2> QED BY <1>1, <2>2, <2>3, <2>4
<1> QED BY <1>2, <1>3, <1>4, <1>5, <1>6, <1>7 DEF Inv

-----------------------------------------------------------------------------
(* A request is answered                                                   *)

LEMMA AnswerInv ==
  ASSUME Inv, NEW w \in Workers, Answer(w)
  PROVE  Inv'
<1> DEFINE r == req[w]
<1>0. /\ TypeOK /\ Counted /\ Reads /\ CodesMade /\ Enrolled /\ Recovered
      /\ Typed /\ Outcome(w)
  BY AnswerOutcome DEF Inv
<1>1. /\ r # None /\ UNCHANGED <<spent, crossed>>
      /\ LeavesAlone \/ SetsUp(r) \/ SwitchesOn(r) \/ SwitchesOff(r) \/ UsesUp(r)
  BY <1>0 DEF Outcome
<1>2. r \in Requests /\ r.seen \in AccountRows /\ w \in Busy /\ LetIn(r)
  BY <1>0, <1>1, AtType DEF Reads
<1>3. /\ req' \in [Workers -> Requests \union {None}]
      /\ Busy' = Busy \ {w}
      /\ \A v \in Busy' : v \in Busy /\ v # w /\ req'[v] = req[v]
      /\ \A op : Cardinality(UnderWay(op)') =
                  IF r.op = op THEN Cardinality(UnderWay(op)) - 1
                  ELSE Cardinality(UnderWay(op))
  BY <1>0, Over DEF Outcome
<1>n. /\ MaxSecrets \in Nat /\ MaxCodes \in Nat /\ SetSize \in Nat \ {0}
      /\ made \in [secrets : 0..MaxSecrets, codes : 0..MaxCodes]
      /\ made.secrets \in Nat /\ made.codes \in Nat
      /\ \A op : Cardinality(UnderWay(op)) \in Nat
  BY <1>0, CountType, SignInAssumption DEF TypeOK
<1>m. \/ made' = made
      \/ r.op = "setup" /\ made' = [made EXCEPT !.secrets = @ + 1]
      \/ r.op = "enable" /\ made' = [made EXCEPT !.codes = @ + SetSize]
  BY <1>1 DEF LeavesAlone, SetsUp, SwitchesOn, SwitchesOff, UsesUp
<1>4. Counted' /\ made' \in [secrets : 0..MaxSecrets, codes : 0..MaxCodes]
  <2> DEFINE ns == Cardinality(UnderWay("setup"))
             ne == Cardinality(UnderWay("enable"))
  <2>1. /\ made.secrets + ns <= MaxSecrets /\ made.codes + SetSize * ne <= MaxCodes
        /\ ns \in Nat /\ ne \in Nat
    BY <1>0, <1>n DEF Counted
  <2>2. /\ Cardinality(UnderWay("setup")') = IF r.op = "setup" THEN ns - 1 ELSE ns
        /\ Cardinality(UnderWay("enable")') = IF r.op = "enable" THEN ne - 1 ELSE ne
    BY <1>3
  <2>3. (r.op = "setup" => ns # 0) /\ (r.op = "enable" => ne # 0)
    BY <1>2, OneAtLeast
  <2> HIDE DEF ns, ne
  <2>4. SetSize * ne \in Nat /\ (ne # 0 => SetSize * ne = SetSize * (ne - 1) + SetSize)
    BY <1>n, <2>1
  <2>5. ne # 0 => SetSize * (ne - 1) \in Nat
    BY <1>n, <2>1
  <2>6. CASE made' = made
    BY <1>n, <2>1, <2>2, <2>3, <2>4, <2>5, <2>6 DEF Counted
  <2>7. CASE r.op = "setup" /\ made' = [made EXCEPT !.secrets = @ + 1]
    <3>1. made'.secrets = made.secrets + 1 /\ made'.codes = made.codes
      BY <1>n, <2>7
    <3>2. Counted'
      BY <1>n, <2>1, <2>2, <2>3, <2>7, <3>1 DEF Counted
    <3>3. made.secrets + 1 \in 0..MaxSecrets
      BY <1>n, <2>1, <2>3, <2>7
    <3> QED BY <1>n, <2>7, <3>2, <3>3
  <2>8. CASE r.op = "enable" /\ made' = [made EXCEPT !.codes = @ + SetSize]
    <3>1. made'.secrets = made.secrets /\ made'.codes = made.codes + SetSize
      BY <1>n, <2>8
    <3>2. made.codes + SetSize + SetSize * (ne - 1) <= MaxCodes
      BY <1>n, <2>1, <2>3, <2>4, <2>5, <2>8
    <3>3. Counted'
      BY <1>n, <2>1, <2>2, <2>8, <3>1, <3>2 DEF Counted
    <3>4. made.codes + SetSize \in 0..MaxCodes
      BY <1>n, <2>3, <2>5, <2>8, <3>2
    <3> QED BY <1>n, <2>8, <3>3, <3>4
  <2> QED BY <1>m, <2>6, <2>7, <2>8
<1>5. TypeOK'
  BY <1>0, <1>1, <1>3, <1>4 DEF TypeOK, Typed
<1>6. made'.codes \in Nat /\ made.codes <= made'.codes /\ 1..made.codes \subseteq 1..made'.codes
  BY <1>n, <1>m
<1>7. Reads'
  <2> SUFFICES ASSUME NEW v \in Busy' PROVE LetIn(req[v])'
    BY DEF Reads
  <2>1. LetIn(req[v]) /\ req'[v] = req[v]
    BY <1>0, <1>3 DEF Reads
  <2> QED BY <1>6, <2>1 DEF LetIn, Locked
<1>8. CodesMade'
  <2>1. account.codes \subseteq 1..made.codes /\ dead \subseteq 1..made.codes
    BY <1>0 DEF CodesMade
  <2>2. r.seen.codes \subseteq 1..made.codes
    BY <1>2 DEF LetIn
  <2>3. account'.codes \subseteq 1..made.codes \/
          (SwitchesOn(r) /\ account'.codes = made.codes + 1..made.codes + SetSize)
    BY <1>1, <2>1, <2>2 DEF LeavesAlone, SetsUp, SwitchesOn, SwitchesOff, UsesUp, SameCodes
  <2>4. SwitchesOn(r) => made.codes + 1..made.codes + SetSize \subseteq 1..made'.codes
    BY <1>n DEF SwitchesOn
  <2>5. dead' \subseteq 1..made.codes
    BY <1>1, <2>1, <2>2 DEF LeavesAlone, SetsUp, SwitchesOn, SwitchesOff, UsesUp
  <2> QED BY <1>6, <2>3, <2>4, <2>5 DEF CodesMade
<1>9. Enrolled'
  <2> SUFFICES ASSUME "enrolment" \notin crossed'
               PROVE  /\ \A v, x \in Busy' : req'[v].op = "enable" =>
                                              req'[x].op \notin {"setup", "disable"}
                      /\ \A v \in Busy' : req'[v].op = "enable" =>
                                           req'[v].seen.secret = account'.secret
                      /\ \A v \in Busy' : req'[v].op = "setup" => ~account'.on
                      /\ account'.on => account'.secret \in proven'
    BY DEF Enrolled
  <2>1. /\ \A v, x \in Busy : req[v].op = "enable" => req[x].op \notin {"setup", "disable"}
        /\ \A v \in Busy : req[v].op = "enable" => req[v].seen.secret = account.secret
        /\ \A v \in Busy : req[v].op = "setup" => ~account.on
        /\ account.on => account.secret \in proven
    BY <1>0, <1>1 DEF Enrolled
  <2>2. \A v \in Busy' : v \in Busy /\ req'[v] = req[v]
    BY <1>3
  <2>3. CASE Untouched /\ UNCHANGED proven
    BY <2>1, <2>2, <2>3 DEF Untouched
  <2>4. CASE SetsUp(r)
    <3>1. ~account.on /\ account'.on = account.on /\ r.op = "setup"
      BY <1>2, <2>1, <2>4 DEF SetsUp
    <3>2. \A v \in Busy : req[v].op # "enable"
      BY <1>2, <2>1, <3>1
    <3> QED BY <2>2, <3>1, <3>2
  <2>5. CASE SwitchesOn(r)
    <3>1. /\ r.op = "enable" /\ account'.secret = account.secret
          /\ proven' = proven \union {r.seen.secret}
      BY <2>5 DEF SwitchesOn
    <3>2. \A v \in Busy : req[v].op # "setup"
      BY <1>2, <2>1, <3>1
    <3>3. r.seen.secret = account.secret
      BY <1>2, <2>1, <3>1
    <3> QED BY <2>1, <2>2, <3>1, <3>2, <3>3
  <2>6. CASE SwitchesOff(r)
    <3>1. r.op = "disable" /\ ~account'.on
      BY <2>6 DEF SwitchesOff
    <3>2. \A v \in Busy : req[v].op # "enable"
      BY <1>2, <2>1, <3>1
    <3> QED BY <2>2, <3>1, <3>2
  <2> QED BY <1>1, <2>3, <2>4, <2>5, <2>6 DEF LeavesAlone, UsesUp
<1>10. Recovered'
  <2> SUFFICES ASSUME "recovery" \notin crossed'
               PROVE  /\ \A v, x \in Busy' : v # x /\ req'[v].op = "verify" =>
                                         req'[x].op \notin {"verify", "enable", "disable"}
                      /\ \A v \in Busy' : req'[v].op = "verify" =>
                                         req'[v].seen.codes \intersect dead' = {}
                      /\ account'.codes \intersect dead' = {}
    BY DEF Recovered
  <2>1. /\ \A v, x \in Busy : v # x /\ req[v].op = "verify" =>
                             req[x].op \notin {"verify", "enable", "disable"}
        /\ \A v \in Busy : req[v].op = "verify" => req[v].seen.codes \intersect dead = {}
        /\ account.codes \intersect dead = {}
    BY <1>0, <1>1 DEF Recovered
  <2>2. \A v \in Busy' : v \in Busy /\ v # w /\ req'[v] = req[v]
    BY <1>3
  <2>3. r.op \in {"verify", "enable", "disable"} => \A v \in Busy' : req[v].op # "verify"
    BY <1>2, <2>1, <2>2
  <2>4. CASE SameCodes /\ UNCHANGED dead
    BY <2>1, <2>2, <2>4 DEF SameCodes
  <2>5. CASE SwitchesOn(r)
    <3>1. /\ r.op = "enable" /\ dead' = dead \union 1..made.codes
          /\ account'.codes = made.codes + 1..made.codes + SetSize
      BY <2>5 DEF SwitchesOn
    <3>2. dead' = 1..made.codes
      BY <1>0, <3>1 DEF CodesMade
    <3>3. account'.codes \intersect dead' = {}
      BY <1>n, <3>1, <3>2
    <3> QED BY <2>1, <2>2, <2>3, <3>1, <3>3
  <2>6. CASE SwitchesOff(r)
    <3>1. /\ r.op = "disable" /\ dead' = dead \union r.seen.codes
          /\ account'.codes = {} \/ (r.seen.codes = {} /\ account'.codes = account.codes)
      BY <2>6 DEF SwitchesOff, SameCodes
    <3>2. account'.codes \intersect dead' = {}
      BY <2>1, <3>1
    <3> QED BY <2>1, <2>2, <2>3, <3>1, <3>2
  <2>7. CASE UsesUp(r)
    <3>1. PICK c \in r.seen.codes :
            account'.codes = r.seen.codes \ {c} /\ dead' = dead \union {c}
      BY <2>7 DEF UsesUp
    <3>2. r.op = "verify" /\ r.seen.codes \intersect dead = {}
      BY <1>2, <2>1, <2>7 DEF UsesUp
    <3>3. account'.codes \intersect dead' = {}
      BY <3>1, <3>2
    <3> QED BY <2>1, <2>2, <2>3, <3>2, <3>3
  <2> QED BY <1>1, <2>4, <2>5, <2>6, <2>7 DEF LeavesAlone, SetsUp
<1> QED BY <1>4, <1>5, <1>7, <1>8, <1>9, <1>10 DEF Inv

-----------------------------------------------------------------------------
(* Time passes                                                             *)

LEMMA TimeInv ==
  ASSUME Inv, LockEnds \/ \E b \in Browsers : SessionEnds(b)
  PROVE  Inv'
<1>1. /\ UNCHANGED <<req, made, misses, proven, dead, uses, crossed>>
      /\ Untouched /\ SameCodes
      /\ account' \in AccountRows
      /\ session' \subseteq Browsers /\ interim' \subseteq Browsers
      /\ spent' \in [requests : 0..MaxRequests, ends : 0..MaxEnds]
  <2>1. /\ account \in AccountRows /\ session \subseteq Browsers /\ interim \subseteq Browsers
        /\ spent \in [requests : 0..MaxRequests, ends : 0..MaxEnds]
    BY DEF Inv, TypeOK
  <2>2. Ending => spent' \in [requests : 0..MaxRequests, ends : 0..MaxEnds]
    BY <2>1, SignInAssumption DEF Ending
  <2>3. CASE LockEnds
    BY <2>1, <2>2, <2>3 DEF LockEnds, history, Untouched, SameCodes, AccountRows
  <2>4. CASE \E b \in Browsers : SessionEnds(b)
    BY <2>1, <2>2, <2>4 DEF SessionEnds, history, Untouched, SameCodes
  <2> QED BY <2>3, <2>4
<1>2. TypeOK'
  BY <1>1 DEF Inv, TypeOK
<1>3. Counted'
  BY <1>1 DEF Inv, Counted, UnderWay, Busy
<1>4. Reads' /\ CodesMade'
  BY <1>1 DEF Inv, Reads, CodesMade, LetIn, Locked, Busy, SameCodes
<1>5. Enrolled' /\ Recovered'
  BY <1>1 DEF Inv, Enrolled, Recovered, Busy, Untouched, SameCodes
<1> QED BY <1>2, <1>3, <1>4, <1>5 DEF Inv

-----------------------------------------------------------------------------
(* The invariant holds                                                     *)

LEMMA InvNext == ASSUME Inv, [Next]_vars PROVE Inv'
<1>1. CASE \E w \in Workers, b \in Browsers, op \in Ops : Begin(w, b, op)
  BY <1>1, BeginInv
<1>2. CASE \E w \in Workers : Answer(w)
  BY <1>2, AnswerInv
<1>3. CASE LockEnds \/ \E b \in Browsers : SessionEnds(b)
  BY <1>3, TimeInv
<1>4. CASE UNCHANGED vars
  <2>1. TypeOK'
    BY <1>4 DEF vars, history, Inv, TypeOK
  <2>2. Counted'
    BY <1>4 DEF vars, history, Inv, Counted, UnderWay, Busy
  <2>3. Reads' /\ CodesMade'
    BY <1>4 DEF vars, history, Inv, Reads, CodesMade, LetIn, Locked, Busy
  <2>4. Enrolled' /\ Recovered'
    BY <1>4 DEF vars, history, Inv, Enrolled, Recovered, Busy
  <2> QED BY <2>1, <2>2, <2>3, <2>4 DEF Inv
<1> QED BY <1>1, <1>2, <1>3, <1>4 DEF Next

-----------------------------------------------------------------------------
(* How long it takes to be locked                                          *)

(* Twice the failures that there can be while the count says f: two        *)
(* requests at a time lose the more of them to one another, the lower f.   *)
Ceiling(f) == f * (2 * MaxFailures + 1 - f)

InCount ==
  /\ account.fails < MaxFailures
  /\ \A w \in Busy : req[w].seen.fails < MaxFailures

ByOne == Cardinality(Workers) = 1 =>
  /\ misses <= account.fails
  /\ \A w \in Busy : req[w].seen.fails = account.fails

(* A request that has read a lower count than there is will write it back. *)
ByTwo == Cardinality(Workers) = 2 =>
  /\ 2 * misses <= Ceiling(account.fails)
  /\ \A w \in Busy : req[w].seen.fails <= account.fails =>
       2 * misses <= Ceiling(req[w].seen.fails) + 2 * (account.fails - req[w].seen.fails)
  /\ \A v, w \in Busy : v # w => account.fails \in {req[v].seen.fails, req[w].seen.fails}

Tallied == InCount /\ ByOne /\ ByTwo

(* What an answer does to the count: nothing; or it is cleared, unless the *)
(* request has read that there was nothing to clear; or one is added to    *)
(* what the request has read.                                              *)
Adds(w) ==
  LET s == req[w].seen.fails IN
  \/ account'.fails = account.fails /\ misses' = misses
  \/ /\ misses' = 0
     /\ account'.fails = 0 \/ (s = 0 /\ account'.fails = account.fails)
  \/ s + 1 < MaxFailures /\ account'.fails = s + 1 /\ misses' = misses + 1

LEMMA EndsCount ==
  ASSUME TypeOK, NEW w \in Workers, req[w] # None, NEW n \in AccountRows, Ends(w, n)
  PROVE  account'.fails = IF n.fails # req[w].seen.fails THEN n.fails ELSE account.fails
<1>1. account \in AccountRows /\ account' = Written(req[w].seen, n)
  BY DEF TypeOK, Ends
<1> QED BY <1>1 DEF Written, AccountRows

LEMMA AnswerAdds ==
  ASSUME TypeOK, Counted, Reads, InCount, NEW w \in Workers, Answer(w)
  PROVE  Adds(w)
<1> DEFINE r == req[w]
<1>0. r # None
  BY DEF Answer, WrongPassword, PasswordAlone, PasswordSuffices, ChangePassword, WrongCode,
         Setup, Disable, Refused, RightCode, Enable, RecoveryCode, At
<1>1. r \in Requests /\ r.op \in Ops /\ r.seen \in AccountRows /\ w \in Busy /\ LetIn(r)
  BY <1>0, AtType DEF Reads
<1>m. ASSUME Misses(w), r.op \notin {"setup", "enable"} PROVE Adds(w)
  <2> DEFINE n == Failed(r.seen)
  <2>1. n \in AccountRows /\ Ends(w, n)
    BY <1>1, <1>m, FailedRow DEF Misses
  <2>2. misses' = IF Locked(n) THEN 0 ELSE misses + 1
    BY <1>m DEF Misses
  <2>3. account'.fails = IF n.fails # r.seen.fails THEN n.fails ELSE account.fails
    BY <1>0, <2>1, EndsCount
  <2>4. CASE r.seen.fails + 1 >= MaxFailures
    <3>1. n.fails = 0 /\ n.lock = "held"
      BY <1>1, <2>4 DEF Failed, AccountRows
    <3> QED BY <2>2, <2>3, <3>1 DEF Adds, Locked
  <2>5. CASE ~(r.seen.fails + 1 >= MaxFailures)
    <3>1. n.fails = r.seen.fails + 1 /\ n.lock = r.seen.lock /\ r.seen.fails \in Nat
      BY <1>1, <2>5 DEF Failed, AccountRows
    <3>2. ~Locked(n)
      BY <1>1, <1>m, <3>1 DEF LetIn, Locked
    <3> QED BY <2>2, <2>3, <2>5, <3>1, <3>2, SignInAssumption DEF Adds
  <2> QED BY <2>4, <2>5
<1>r. ASSUME NEW n \in AccountRows, Ends(w, n), n.fails = 0, misses' = 0 PROVE Adds(w)
  <2>1. account'.fails = IF n.fails # r.seen.fails THEN n.fails ELSE account.fails
    BY <1>0, <1>r, EndsCount
  <2> QED BY <1>r, <2>1 DEF Adds
<1>k. ASSUME NEW n \in AccountRows, Ends(w, n), n.fails = r.seen.fails, misses' = misses
      PROVE  Adds(w)
  <2>1. account'.fails = account.fails
    BY <1>0, <1>k, EndsCount
  <2> QED BY <1>k, <2>1 DEF Adds
<1>2. Reset(r.seen) \in AccountRows /\ Reset(r.seen).fails = 0
  BY <1>1 DEF Reset, AccountRows
<1>3. CASE WrongPassword(w) \/ WrongCode(w)
  BY <1>3, <1>m DEF WrongPassword, WrongCode, At
<1>4. CASE PasswordAlone(w) \/ PasswordSuffices(w) \/ ChangePassword(w)
  BY <1>2, <1>4, <1>r DEF PasswordAlone, PasswordSuffices, ChangePassword
<1>5. CASE Refused(w)
  BY <1>5 DEF Refused, history, Adds
<1>6. ASSUME NEW s \in TimeSteps, RightCode(w, s) PROVE Adds(w)
  <2>1. LET n == [Reset(r.seen) EXCEPT !.last = s] IN
        n \in AccountRows /\ n.fails = 0 /\ Ends(w, n) /\ misses' = 0
    BY <1>2, <1>6 DEF RightCode, AccountRows
  <2> QED BY <2>1, <1>r
<1>7. ASSUME NEW c \in Codes, RecoveryCode(w, c) PROVE Adds(w)
  <2>1. LET n == Without(Reset(r.seen), c) IN
        n \in AccountRows /\ n.fails = 0 /\ Ends(w, n) /\ misses' = 0
    BY <1>2, <1>7 DEF RecoveryCode, Without, AccountRows
  <2> QED BY <2>1, <1>r
<1>8. CASE Setup(w)
  <2> DEFINE n == [r.seen EXCEPT !.secret = made.secrets + 1, !.on = FALSE]
  <2>1. Ends(w, n) /\ misses' = misses /\ r.op = "setup"
    BY <1>8 DEF Setup, At
  <2>2. made.secrets + 1 \in Secrets
    <3>1. Cardinality(UnderWay("setup")) \in Nat \ {0}
      BY <1>1, <2>1, OneAtLeast
    <3> QED BY <3>1, SignInAssumption DEF Counted, Secrets, TypeOK
  <2>3. n \in AccountRows /\ n.fails = r.seen.fails
    BY <1>1, <2>2 DEF AccountRows
  <2> HIDE DEF n
  <2> QED BY <2>1, <2>3, <1>k
<1>9. ASSUME NEW s \in TimeSteps, Enable(w, s) PROVE Adds(w)
  <2>1. Ends(w, Enabled(r.seen, s)) /\ misses' = misses
    BY <1>9 DEF Enable
  <2>2. account'.fails = account.fails
    <3>1. account \in AccountRows /\ account' = Written(r.seen, Enabled(r.seen, s))
      BY <2>1 DEF TypeOK, Ends
    <3>2. Enabled(r.seen, s).fails = r.seen.fails
      BY <1>1 DEF Enabled, AccountRows
    <3> QED BY <3>1, <3>2 DEF Written, AccountRows
  <2> QED BY <2>1, <2>2 DEF Adds
<1>10. CASE Disable(w)
  <2> DEFINE d == Disabled(Reset(r.seen))
  <2>1. d \in AccountRows /\ d.fails = 0 /\ misses' = 0
    BY <1>2, <1>10 DEF Disable, Disabled, AccountRows
  <2>2. ASSUME NEW s \in TimeSteps, Ends(w, [d EXCEPT !.last = s]) PROVE Adds(w)
    <3>1. LET n == [d EXCEPT !.last = s] IN n \in AccountRows /\ n.fails = 0
      BY <2>1 DEF AccountRows
    <3> QED BY <2>1, <2>2, <3>1, <1>r
  <2> QED BY <1>10, <2>1, <2>2, <1>r DEF Disable
<1> QED BY <1>3, <1>4, <1>5, <1>6, <1>7, <1>8, <1>9, <1>10 DEF Answer

LEMMA CeilingGrows ==
  ASSUME NEW f \in 0..MaxFailures - 1, NEW g \in 0..MaxFailures - 1, f <= g
  PROVE  /\ Ceiling(f) \in Nat
         /\ Ceiling(f) + 2 * (g - f) <= Ceiling(g)
         /\ Ceiling(g) < MaxFailures * (MaxFailures + 1)
         /\ Ceiling(f + 1) = Ceiling(f) + 2 * (MaxFailures - f)
<1> DEFINE M == MaxFailures
<1>1. M \in Nat \ {0} /\ f \in Nat /\ g \in Nat /\ f < M /\ g < M
  BY SignInAssumption
<1> HIDE DEF M
<1>2. \A x, y \in Nat : x * y \in Nat
  OBVIOUS
<1>3. f * (2 * M + 1 - f) \in Nat
  BY <1>1, <1>2
<1>4. g * (2 * M + 1 - g) = f * (2 * M + 1 - f) + (g - f) * (2 * M + 1 - g - f)
  BY <1>1
<1>5. (g - f) * (2 * M + 1 - g - f) = 2 * (g - f) + (g - f) * (2 * M - 1 - g - f)
  BY <1>1
<1>6. (g - f) * (2 * M - 1 - g - f) \in Nat
  BY <1>1, <1>2
<1>7. M * (M + 1) = g * (2 * M + 1 - g) + (M - g) * (M + 1 - g)
  BY <1>1
<1>8. (M - g) * (M + 1 - g) # 0 /\ (M - g) * (M + 1 - g) \in Nat
  <2>1. \A x, y \in Nat \ {0} : x * y # 0
    OBVIOUS
  <2>2. M - g \in Nat \ {0} /\ M + 1 - g \in Nat \ {0}
    BY <1>1
  <2> QED BY <2>1, <2>2, <1>2
<1>9. (f + 1) * (2 * M + 1 - (f + 1)) = f * (2 * M + 1 - f) + 2 * (M - f)
  BY <1>1
<1>10. g * (2 * M + 1 - g) \in Nat
  BY <1>1, <1>2
<1> QED BY <1>1, <1>3, <1>4, <1>5, <1>6, <1>7, <1>8, <1>9, <1>10 DEF Ceiling, M

LEMMA FewWorkers ==
  ASSUME NEW x \in Workers, NEW y \in Workers, x # y
  PROVE  /\ Cardinality(Workers) # 1
         /\ Cardinality(Workers) = 2 => \A z \in Workers : z \in {x, y}
<1>1. IsFiniteSet(Workers) /\ {x, y} \subseteq Workers
  BY SignInAssumption
<1>2. IsFiniteSet({x}) /\ Cardinality({x}) = 1 /\ y \notin {x} /\ {x, y} = {x} \union {y}
  BY FS_Singleton
<1>3. Cardinality({x, y}) = 2 /\ IsFiniteSet({x, y})
  BY <1>2, FS_AddElement
<1>4. ASSUME Cardinality(Workers) = 2 PROVE {x, y} = Workers
  BY <1>1, <1>3, <1>4, FS_Subset
<1>5. Cardinality({x, y}) <= Cardinality(Workers)
  BY <1>1, FS_Subset
<1> QED BY <1>3, <1>4, <1>5

LEMMA TalliedInit == ASSUME Init PROVE Tallied
<1>1. Busy = {} /\ account \in AccountRows /\ account.fails < MaxFailures /\ misses = account.fails
  BY StartAssumption DEF Init, Busy
<1>2. account.fails \in 0..MaxFailures - 1 /\ 0 \in 0..MaxFailures - 1
  BY <1>1, SignInAssumption DEF AccountRows
<1>3. Ceiling(0) = 0
  BY SignInAssumption DEF Ceiling
<1>4. 2 * misses <= Ceiling(account.fails)
  <2>1. Ceiling(0) + 2 * (account.fails - 0) <= Ceiling(account.fails)
    BY <1>2, CeilingGrows
  <2> QED BY <1>1, <1>2, <1>3, <2>1
<1> QED BY <1>1, <1>2, <1>4 DEF Tallied, InCount, ByOne, ByTwo

LEMMA BeginTallied ==
  ASSUME Inv, Tallied, NEW w \in Workers, NEW b \in Browsers, NEW op \in Ops, Begin(w, b, op)
  PROVE  Tallied'
<1>1. /\ req'[w].seen = account /\ w \notin Busy /\ Busy' = Busy \union {w}
      /\ \A v \in Busy : req'[v] = req[v]
      /\ account' = account /\ misses' = misses
  BY BeginFacts DEF Inv, Begin
<1>2. account.fails \in Nat
  BY DEF Inv, TypeOK, AccountRows
<1>3. InCount'
  BY <1>1 DEF Tallied, InCount
<1>4. ByOne'
  BY <1>1 DEF Tallied, ByOne
<1>5. ASSUME Cardinality(Workers) = 2
      PROVE  \A v, x \in Busy' : v # x => account'.fails \in {req'[v].seen.fails, req'[x].seen.fails}
  <2>1. \A v \in Busy : \A x \in Busy : v = x
    <3> SUFFICES ASSUME NEW v \in Busy, NEW x \in Busy, v # x PROVE FALSE
      OBVIOUS
    <3>1. w \in {v, x}
      BY <1>5, FewWorkers DEF Busy
    <3> QED BY <1>1, <3>1
  <2> QED BY <1>1, <2>1
<1>6. ByTwo'
  <2> SUFFICES ASSUME Cardinality(Workers) = 2
               PROVE  /\ 2 * misses <= Ceiling(account.fails)
                      /\ \A v \in Busy' : req'[v].seen.fails <= account.fails =>
                           2 * misses <= Ceiling(req'[v].seen.fails)
                                          + 2 * (account.fails - req'[v].seen.fails)
    BY <1>1, <1>5 DEF ByTwo, Ceiling
  <2>1. /\ 2 * misses <= Ceiling(account.fails)
        /\ \A v \in Busy : req[v].seen.fails <= account.fails =>
             2 * misses <= Ceiling(req[v].seen.fails) + 2 * (account.fails - req[v].seen.fails)
    BY DEF Tallied, ByTwo
  <2>2. Ceiling(account.fails) + 2 * (account.fails - account.fails) = Ceiling(account.fails)
    BY <1>2, SignInAssumption DEF Ceiling
  <2> QED BY <1>1, <2>1, <2>2
<1> QED BY <1>3, <1>4, <1>6 DEF Tallied

LEMMA AnswerTallied ==
  ASSUME Inv, Tallied, NEW w \in Workers, Answer(w)
  PROVE  Tallied'
<1> DEFINE F == account.fails  s == req[w].seen.fails  M == MaxFailures
<1>1. Adds(w) /\ Outcome(w)
  BY AnswerAdds, AnswerOutcome DEF Inv, Tallied
<1>2. /\ w \in Busy /\ Busy' = Busy \ {w}
      /\ \A v \in Busy' : v \in Busy /\ v # w /\ req'[v] = req[v]
  BY <1>1, AtType, Over DEF Outcome, Inv
<1>3. \A v \in Busy : req[v].seen.fails \in 0..M - 1
  <2>1. \A v \in Busy : req[v].seen \in AccountRows
    BY AtType DEF Inv, Busy
  <2> QED BY <2>1, SignInAssumption DEF Tallied, InCount, AccountRows
<1>4. F \in 0..M - 1 /\ s \in 0..M - 1 /\ M \in Nat \ {0} /\ misses \in Nat
  BY <1>2, <1>3, SignInAssumption DEF Inv, TypeOK, Tallied, InCount, AccountRows
<1>5. account'.fails \in 0..M - 1
  BY <1>1, <1>4 DEF Adds
<1>6. InCount'
  BY <1>2, <1>3, <1>4, <1>5 DEF InCount
<1>7. ByOne'
  <2> SUFFICES ASSUME Cardinality(Workers) = 1
               PROVE  misses' <= account'.fails /\ Busy' = {}
    BY DEF ByOne
  <2>1. Busy' = {}
    BY <1>2, FewWorkers DEF Busy
  <2>2. misses <= F /\ s = F
    BY <1>2 DEF Tallied, ByOne
  <2> QED BY <1>1, <1>4, <2>1, <2>2 DEF Adds
<1>8. ByTwo'
  <2> SUFFICES ASSUME Cardinality(Workers) = 2
               PROVE  /\ 2 * misses' <= Ceiling(account'.fails)
                      /\ \A v \in Busy' : req'[v].seen.fails <= account'.fails =>
                           2 * misses' <= Ceiling(req'[v].seen.fails)
                                           + 2 * (account'.fails - req'[v].seen.fails)
                      /\ \A v, x \in Busy' : v = x
    BY DEF ByTwo, Ceiling
  <2>1. \A v, x \in Busy' : v = x
    <3> SUFFICES ASSUME NEW v \in Busy', NEW x \in Busy', v # x PROVE FALSE
      OBVIOUS
    <3>1. w \in {v, x}
      BY <1>2, FewWorkers DEF Busy
    <3> QED BY <1>2, <3>1
  <2>2. /\ 2 * misses <= Ceiling(F)
        /\ \A v \in Busy : req[v].seen.fails <= F =>
             2 * misses <= Ceiling(req[v].seen.fails) + 2 * (F - req[v].seen.fails)
        /\ \A v \in Busy : v # w => F = s \/ F = req[v].seen.fails
    BY <1>2 DEF Tallied, ByTwo
  <2>3. \A f \in 0..M - 1 : Ceiling(f) \in Nat /\ Ceiling(f + 1) = Ceiling(f) + 2 * (M - f)
    BY CeilingGrows
  <2>4. \A f, g \in 0..M - 1 : f <= g => Ceiling(f) + 2 * (g - f) <= Ceiling(g)
    BY CeilingGrows
  <2> HIDE DEF F, s, M
  <2>5. CASE account'.fails = F /\ misses' = misses
    BY <1>2, <2>1, <2>2, <2>5
  <2>6. CASE misses' = 0
    BY <1>2, <1>3, <1>4, <1>5, <2>1, <2>3, <2>6
  <2>7. CASE s + 1 < M /\ account'.fails = s + 1 /\ misses' = misses + 1
    <3>1. Ceiling(s + 1) = Ceiling(s) + 2 * (M - s) /\ Ceiling(s) \in Nat /\ Ceiling(F) \in Nat
      BY <1>4, <2>3
    <3>2. 2 * (misses + 1) <= Ceiling(s + 1)
      <4>1. CASE s <= F
        <5>1. 2 * misses <= Ceiling(s) + 2 * (F - s)
          BY <1>2, <2>2, <4>1 DEF s
        <5> QED BY <1>4, <3>1, <5>1
      <4>2. CASE F < s
        <5>1. Ceiling(F) + 2 * (s - F) <= Ceiling(s)
          BY <1>4, <2>4, <4>2
        <5> QED BY <1>4, <2>2, <2>7, <3>1, <4>2, <5>1
      <4> QED BY <1>4, <4>1, <4>2
    <3>3. ASSUME NEW v \in Busy', req'[v].seen.fails <= account'.fails
          PROVE  2 * misses' <= Ceiling(req'[v].seen.fails)
                                 + 2 * (account'.fails - req'[v].seen.fails)
      <4> DEFINE a == req[v].seen.fails
      <4>1. v \in Busy /\ v # w /\ req'[v] = req[v] /\ a \in 0..M - 1 /\ Ceiling(a) \in Nat
        BY <1>2, <1>3, <2>3
      <4>2. a <= s + 1 /\ (F = s \/ F = a)
        BY <2>2, <2>7, <3>3, <4>1
      <4> SUFFICES 2 * (misses + 1) <= Ceiling(a) + 2 * (s + 1 - a)
        BY <1>4, <2>7, <4>1
      <4> HIDE DEF a
      <4>3. CASE a = s + 1
        BY <1>4, <3>2, <4>1, <4>3
      <4>4. CASE a <= s /\ F = s
        <5>1. 2 * misses <= Ceiling(a) + 2 * (F - a)
          BY <2>2, <4>1, <4>4 DEF a
        <5> QED BY <1>4, <4>1, <4>4, <5>1
      <4>5. CASE a <= s /\ F = a
        <5>1. 2 * misses <= Ceiling(a)
          BY <2>2, <4>5
        <5> QED BY <1>4, <4>1, <4>5, <5>1
      <4> QED BY <1>4, <4>1, <4>2, <4>3, <4>4, <4>5
    <3>4. 2 * misses' <= Ceiling(account'.fails)
      BY <2>7, <3>2
    <3> QED BY <2>1, <3>3, <3>4
  <2> QED BY <1>1, <2>5, <2>6, <2>7 DEF Adds, F, s, M
<1> QED BY <1>6, <1>7, <1>8 DEF Tallied

LEMMA TalliedNext ==
  ASSUME Inv, Tallied, [Next]_vars
  PROVE  Tallied'
<1>1. ASSUME UNCHANGED <<req, misses>>, account'.fails = account.fails PROVE Tallied'
  BY <1>1 DEF Tallied, InCount, ByOne, ByTwo, Busy, Ceiling
<1>2. CASE LockEnds
  BY <1>1, <1>2 DEF LockEnds, history, Inv, TypeOK, AccountRows
<1>3. CASE \E b \in Browsers : SessionEnds(b)
  BY <1>1, <1>3 DEF SessionEnds, history
<1>4. CASE UNCHANGED vars
  BY <1>1, <1>4 DEF vars, history
<1> QED BY <1>2, <1>3, <1>4, BeginTallied, AnswerTallied DEF Next

-----------------------------------------------------------------------------
(* How often a code is accepted                                            *)

(* Secrets are made one after the other, and while nothing has overlapped  *)
(* that should not, the factor is on as soon as a code for its secret was  *)
(* accepted and has no secret when it is off again.                        *)
Shown ==
  /\ proven \subseteq 1..made.secrets
  /\ account.secret \in 1..made.secrets \union {None}
  /\ \A w \in Busy : req[w].seen.secret \in 1..made.secrets \union {None}
  /\ "enrolment" \notin crossed =>
       /\ account.secret \in proven => account.on
       /\ \A w \in Busy : req[w].op \in {"verify", "disable"} => req[w].seen.secret \in proven
       /\ \A c \in Secrets \X TimeSteps : uses.of[c] # 0 => c[1] \in proven

(* Requests that can have a code accepted, and among them those that will  *)
(* have it accepted without a trace in the row.                            *)
Able(c) ==
  {w \in Busy : /\ req[w].seen.secret = c[1]
                /\ \/ req[w].op = "enable"
                   \/ req[w].op \in {"verify", "disable"} /\ req[w].seen.last # c[2]}
Traceless(c) ==
  {w \in Busy : req[w].op = "enable" /\ req[w].seen.secret = c[1] /\ req[w].seen.last = c[2]}

(* Once a code was accepted the step of the last one keeps all others out  *)
(* but those that had read the row before.                                 *)
Rationed(c) ==
  LET others == uses.all - uses.of[c] IN
  /\ uses.of[c] <= uses.all
  /\ account.last # c[2] =>
       uses.of[c] + Cardinality(Traceless(c)) <= Cardinality(Workers) * others
  /\ account.last = c[2] =>
       uses.of[c] + Cardinality(Able(c)) <= Cardinality(Workers) * (1 + others)

AllRationed == "enrolment" \notin crossed => \A c \in Secrets \X TimeSteps : Rationed(c)

(* What an answer does to the codes that were accepted.                    *)
Presents(w) ==
  LET r == req[w] IN
  \/ uses' = uses /\ account'.last = account.last
  \/ \E s \in TimeSteps :
       /\ Used(r.seen, s) /\ r.op \in {"verify", "disable", "enable"} /\ r.seen.secret \in Secrets
       /\ IF r.op = "enable" THEN r.seen.secret \in proven' ELSE s # r.seen.last
       /\ account'.last = IF s # r.seen.last THEN s ELSE account.last

LEMMA EndsLast ==
  ASSUME TypeOK, NEW w \in Workers, req[w] # None, NEW n, Ends(w, n)
  PROVE  /\ account'.last = IF n.last # req[w].seen.last THEN n.last ELSE account.last
         /\ account'.secret = IF n.secret # req[w].seen.secret THEN n.secret ELSE account.secret
<1>1. account \in AccountRows /\ account' = Written(req[w].seen, n)
  BY DEF TypeOK, Ends
<1> QED BY <1>1 DEF Written, AccountRows

LEMMA AnswerPresents ==
  ASSUME TypeOK, Reads, NEW w \in Workers, Answer(w)
  PROVE  Presents(w)
<1> DEFINE r == req[w]
<1>0. r # None
  BY DEF Answer, WrongPassword, PasswordAlone, PasswordSuffices, ChangePassword, WrongCode,
         Setup, Disable, Refused, RightCode, Enable, RecoveryCode, At
<1>1. r \in Requests /\ r.op \in Ops /\ r.seen \in AccountRows /\ w \in Busy /\ LetIn(r)
  BY <1>0, AtType DEF Reads
<1>k. ASSUME NEW n, Ends(w, n), n.last = r.seen.last, UNCHANGED uses PROVE Presents(w)
  BY <1>0, <1>k, EndsLast DEF Presents
<1>2. Reset(r.seen) \in AccountRows /\ Reset(r.seen).last = r.seen.last
  BY <1>1 DEF Reset, AccountRows
<1>3. CASE WrongPassword(w) \/ WrongCode(w)
  <2>1. Failed(r.seen).last = r.seen.last
    BY <1>1 DEF Failed, AccountRows
  <2> QED BY <1>3, <2>1, <1>k DEF WrongPassword, WrongCode, Misses
<1>4. CASE PasswordAlone(w) \/ PasswordSuffices(w) \/ ChangePassword(w)
  BY <1>2, <1>4, <1>k DEF PasswordAlone, PasswordSuffices, ChangePassword
<1>5. CASE Refused(w)
  BY <1>5 DEF Refused, history, Presents
<1>6. ASSUME NEW s \in TimeSteps, RightCode(w, s) PROVE Presents(w)
  <2> DEFINE n == [Reset(r.seen) EXCEPT !.last = s]
  <2>1. n.last = s /\ Ends(w, n) /\ Used(r.seen, s) /\ r.op = "verify" /\ s # r.seen.last
    BY <1>2, <1>6 DEF RightCode, At, Fresh, AccountRows
  <2>2. account'.last = s
    BY <1>0, <2>1, EndsLast
  <2>3. r.seen.secret \in Secrets
    BY <1>1, <2>1 DEF LetIn, AccountRows
  <2> QED BY <2>1, <2>2, <2>3 DEF Presents
<1>7. ASSUME NEW c \in Codes, RecoveryCode(w, c) PROVE Presents(w)
  <2>1. LET n == Without(Reset(r.seen), c) IN
        n.last = r.seen.last /\ Ends(w, n) /\ UNCHANGED uses
    BY <1>2, <1>7 DEF RecoveryCode, Without, AccountRows
  <2> QED BY <2>1, <1>k
<1>8. CASE Setup(w)
  <2>1. LET n == [r.seen EXCEPT !.secret = made.secrets + 1, !.on = FALSE] IN
        n.last = r.seen.last /\ Ends(w, n) /\ UNCHANGED uses
    BY <1>1, <1>8 DEF Setup, AccountRows
  <2> QED BY <2>1, <1>k
<1>9. ASSUME NEW s \in TimeSteps, Enable(w, s) PROVE Presents(w)
  <2> DEFINE n == Enabled(r.seen, s)
  <2>1. /\ n.last = s /\ Ends(w, n) /\ Used(r.seen, s) /\ r.op = "enable"
        /\ r.seen.secret \in proven'
    BY <1>1, <1>9 DEF Enable, At, Enabled, AccountRows
  <2>2. account'.last = IF s # r.seen.last THEN s ELSE account.last
    <3> HIDE DEF n
    <3> QED BY <1>0, <2>1, EndsLast
  <2>3. r.seen.secret \in Secrets
    BY <1>1, <2>1 DEF LetIn, AccountRows
  <2> QED BY <2>1, <2>2, <2>3 DEF Presents
<1>10. CASE Disable(w)
  <2> DEFINE d == Disabled(Reset(r.seen))
  <2>1. d \in AccountRows /\ d.last = r.seen.last /\ r.op = "disable"
    BY <1>2, <1>10 DEF Disable, At, Disabled, AccountRows
  <2>2. ASSUME NEW s \in TimeSteps, r.seen.secret # None, Fresh(r.seen, s),
               Ends(w, [d EXCEPT !.last = s]), Used(r.seen, s)
        PROVE  Presents(w)
    <3>1. [d EXCEPT !.last = s].last = s
      BY <2>1 DEF AccountRows
    <3>2. account'.last = s
      BY <1>0, <2>2, <3>1, EndsLast DEF Fresh
    <3>3. r.seen.secret \in Secrets
      BY <1>1, <2>2 DEF AccountRows
    <3> QED BY <2>1, <2>2, <3>2, <3>3 DEF Presents, Fresh
  <2> QED BY <1>10, <2>1, <2>2, <1>k DEF Disable
<1> QED BY <1>3, <1>4, <1>5, <1>6, <1>7, <1>8, <1>9, <1>10 DEF Answer

(* What an answer does to the secret.                                      *)
Enrols(w) ==
  LET r == req[w] IN
  \/ Untouched /\ UNCHANGED <<made, proven>>
  \/ SetsUp(r) /\ account'.secret = made.secrets + 1
  \/ SwitchesOn(r)
  \/ SwitchesOff(r) /\ account'.secret = IF r.seen.secret = None THEN account.secret ELSE None

LEMMA AnswerEnrols ==
  ASSUME Inv, Shown, NEW w \in Workers, Answer(w)
  PROVE  Enrols(w)
<1> DEFINE r == req[w]
<1>0. /\ r # None /\ TypeOK
      /\ LeavesAlone \/ SetsUp(r) \/ SwitchesOn(r) \/ SwitchesOff(r) \/ UsesUp(r)
  BY AnswerOutcome DEF Inv, Outcome
<1>1. r.seen \in AccountRows /\ w \in Busy
  BY <1>0, AtType
<1>2. CASE LeavesAlone \/ SwitchesOn(r) \/ UsesUp(r)
  BY <1>2 DEF LeavesAlone, UsesUp, Enrols
<1>3. CASE SetsUp(r)
  <2>1. r.op = "setup" /\ made' # made
    BY <1>0, <1>3 DEF SetsUp, TypeOK
  <2>2. Setup(w)
    BY <2>1 DEF Answer, WrongPassword, PasswordAlone, PasswordSuffices, ChangePassword, WrongCode,
         Setup, Disable, Refused, RightCode, Enable, RecoveryCode, At
  <2> DEFINE n == [r.seen EXCEPT !.secret = made.secrets + 1, !.on = FALSE]
  <2>3. Ends(w, n) /\ n.secret = made.secrets + 1
    BY <1>1, <2>2 DEF Setup, AccountRows
  <2>4. made.secrets + 1 # r.seen.secret
    BY <1>0, <1>1, SignInAssumption DEF Shown, TypeOK
  <2>5. account'.secret = made.secrets + 1
    <3> HIDE DEF n
    <3> QED BY <1>0, <2>3, <2>4, EndsLast
  <2> QED BY <1>3, <2>5 DEF Enrols
<1>4. CASE SwitchesOff(r)
  <2>1. r.op = "disable"
    BY <1>4 DEF SwitchesOff
  <2> DEFINE Cleared == account'.secret = IF r.seen.secret = None THEN account.secret ELSE None
  <2>2. CASE Disable(w)
    <3> DEFINE d == Disabled(Reset(r.seen))
    <3>1. d \in AccountRows /\ d.secret = None
      BY <1>1, ResetRow DEF Disabled, AccountRows
    <3>2. ASSUME NEW s \in TimeSteps, Ends(w, [d EXCEPT !.last = s]) PROVE Cleared
      <4>1. [d EXCEPT !.last = s].secret = None
        BY <3>1 DEF AccountRows
      <4> QED BY <1>0, <3>2, <4>1, EndsLast
    <3>3. ASSUME Ends(w, d) PROVE Cleared
      <4> HIDE DEF d
      <4> QED BY <1>0, <3>1, <3>3, EndsLast
    <3>4. Cleared
      <4> HIDE DEF Cleared
      <4> QED BY <2>2, <3>2, <3>3 DEF Disable
    <3> QED BY <1>4, <3>4 DEF Enrols
  <2>3. CASE Misses(w)
    <3>1. Failed(r.seen).on = r.seen.on /\ Failed(r.seen).secret = r.seen.secret
      BY <1>1, FailedRow
    <3>2. account' = Written(r.seen, Failed(r.seen)) /\ UNCHANGED <<made, proven>>
      BY <2>3 DEF Misses, Ends
    <3>3. Untouched
      BY <1>0, <3>1, <3>2 DEF Written, TypeOK, AccountRows, Untouched
    <3> QED BY <3>2, <3>3 DEF Enrols
  <2>4. CASE Refused(w)
    BY <2>4 DEF Refused, history, Untouched, Enrols
  <2> QED BY <2>1, <2>2, <2>3, <2>4
       DEF Answer, WrongPassword, PasswordAlone, PasswordSuffices, ChangePassword, WrongCode,
         Setup, Disable, Refused, RightCode, Enable, RecoveryCode, At
<1> QED BY <1>0, <1>2, <1>3, <1>4

LEMMA UsedCount ==
  ASSUME TypeOK, NEW a, NEW s \in TimeSteps, a.secret \in Secrets, Used(a, s)
  PROVE  /\ uses'.all = uses.all + 1
         /\ \A c \in Secrets \X TimeSteps :
              uses'.of[c] = IF c = <<a.secret, s>> THEN uses.of[c] + 1 ELSE uses.of[c]
<1>1. uses \in Uses /\ uses.of \in [Secrets \X TimeSteps -> Nat]
  BY DEF TypeOK, Uses
<1>2. uses' = [uses EXCEPT !.of = [uses.of EXCEPT ![<<a.secret, s>>] = @ + 1], !.all = @ + 1]
  BY DEF Used
<1>3. uses'.of = [uses.of EXCEPT ![<<a.secret, s>>] = @ + 1] /\ uses'.all = uses.all + 1
  BY <1>1, <1>2 DEF Uses
<1> QED BY <1>1, <1>3

LEMMA ShownInit == ASSUME Init PROVE Shown
<1>1. /\ Busy = {} /\ account \in AccountRows
      /\ IF account.on THEN account.secret = 1 ELSE account.secret = None
      /\ made.secrets = IF account.on THEN 1 ELSE 0
      /\ proven = IF account.on THEN {account.secret} ELSE {}
      /\ \A c \in Secrets \X TimeSteps : uses.of[c] = 0
  BY StartAssumption DEF Init, Busy
<1> QED BY <1>1 DEF Shown

LEMMA BeginShown ==
  ASSUME Inv, Shown, NEW w \in Workers, NEW b \in Browsers, NEW op \in Ops, Begin(w, b, op)
  PROVE  Shown'
<1>1. /\ req'[w].op = op /\ req'[w].seen = account /\ Busy' = Busy \union {w}
      /\ \A v \in Busy : req'[v] = req[v]
      /\ UNCHANGED <<account, made, proven, uses>>
      /\ "enrolment" \notin crossed' => "enrolment" \notin crossed
      /\ op \in {"verify", "disable"} => account.on
  BY BeginFacts DEF Inv, Begin, Admits, HasFactor
<1>2. "enrolment" \notin crossed /\ account.on => account.secret \in proven
  BY DEF Inv, Enrolled
<1>3. \A v \in Busy' : req'[v].seen.secret \in 1..made.secrets \union {None}
  BY <1>1 DEF Shown
<1>4. "enrolment" \notin crossed' =>
        \A v \in Busy' : req'[v].op \in {"verify", "disable"} => req'[v].seen.secret \in proven
  BY <1>1, <1>2 DEF Shown
<1> QED BY <1>1, <1>3, <1>4 DEF Shown

LEMMA AnswerShown ==
  ASSUME Inv, Shown, NEW w \in Workers, Answer(w)
  PROVE  Shown'
<1> DEFINE r == req[w]
<1>1. Presents(w) /\ Enrols(w) /\ Outcome(w) /\ TypeOK
  BY AnswerPresents, AnswerEnrols, AnswerOutcome DEF Inv
<1>2. /\ w \in Busy /\ Busy' = Busy \ {w} /\ crossed' = crossed
      /\ \A v \in Busy' : v \in Busy /\ req'[v] = req[v]
  BY <1>1, AtType, Over DEF Outcome
<1>3. LetIn(r) /\ r.seen.secret \in 1..made.secrets \union {None}
  BY <1>2 DEF Inv, Reads, Shown
<1>4. /\ made.secrets \in Nat /\ made'.secrets \in {made.secrets, made.secrets + 1}
      /\ 1..made.secrets \subseteq 1..made'.secrets /\ proven \subseteq proven'
  BY <1>1 DEF TypeOK, Enrols, SetsUp, SwitchesOn, SwitchesOff
<1>5. None \notin 1..made.secrets
  BY <1>4, SignInAssumption
<1>6. proven' \subseteq 1..made.secrets
  BY <1>1, <1>3 DEF Enrols, SetsUp, SwitchesOn, SwitchesOff, LetIn, Shown
<1>7. account'.secret \in 1..made'.secrets \union {None}
  BY <1>1, <1>4 DEF Enrols, SetsUp, SwitchesOn, SwitchesOff, Shown, Untouched, TypeOK
<1>8. \A v \in Busy' : req'[v].seen.secret \in 1..made'.secrets \union {None}
  BY <1>2, <1>4 DEF Shown
<1>9. ASSUME "enrolment" \notin crossed
      PROVE  /\ account'.secret \in proven' => account'.on
             /\ \A v \in Busy' : req'[v].op \in {"verify", "disable"} =>
                                  req'[v].seen.secret \in proven'
             /\ \A c \in Secrets \X TimeSteps : uses'.of[c] # 0 => c[1] \in proven'
  <2>1. /\ account.secret \in proven => account.on
        /\ \A v \in Busy : req[v].op \in {"verify", "disable"} => req[v].seen.secret \in proven
        /\ \A c \in Secrets \X TimeSteps : uses.of[c] # 0 => c[1] \in proven
    BY <1>9 DEF Shown
  <2>2. account'.secret \in proven' => account'.on
    <3>1. CASE Untouched /\ UNCHANGED <<made, proven>>
      BY <2>1, <3>1 DEF Untouched
    <3>2. CASE SetsUp(r) /\ account'.secret = made.secrets + 1
      BY <1>4, <1>6, <3>2
    <3>3. CASE SwitchesOn(r)
      BY <3>3 DEF SwitchesOn
    <3>4. CASE SwitchesOff(r) /\ account'.secret = IF r.seen.secret = None THEN account.secret ELSE None
      <4>1. r.op = "disable"
        BY <3>4 DEF SwitchesOff
      <4>2. r.seen.secret # None
        BY <1>2, <1>5, <2>1, <4>1 DEF Shown
      <4> QED BY <1>5, <1>6, <3>4, <4>2
    <3> QED BY <1>1, <3>1, <3>2, <3>3, <3>4 DEF Enrols
  <2>3. \A c \in Secrets \X TimeSteps : uses'.of[c] # 0 => c[1] \in proven'
    <3>1. CASE uses' = uses
      BY <1>4, <2>1, <3>1
    <3>2. ASSUME NEW s \in TimeSteps, Used(r.seen, s), r.op \in {"verify", "disable", "enable"},
                 r.seen.secret \in Secrets, r.op = "enable" => r.seen.secret \in proven'
          PROVE  \A c \in Secrets \X TimeSteps : uses'.of[c] # 0 => c[1] \in proven'
      <4>1. \A c \in Secrets \X TimeSteps :
              uses'.of[c] = IF c = <<r.seen.secret, s>> THEN uses.of[c] + 1 ELSE uses.of[c]
        BY <1>1, <3>2, UsedCount
      <4>2. r.seen.secret \in proven'
        BY <1>2, <1>4, <2>1, <3>2
      <4> QED BY <1>4, <2>1, <4>1, <4>2
    <3> QED BY <1>1, <3>1, <3>2 DEF Presents
  <2> QED BY <1>2, <1>4, <2>1, <2>2, <2>3
<1> QED BY <1>2, <1>4, <1>6, <1>7, <1>8, <1>9 DEF Shown

(* Requests under way are counted by the workers there are.                *)
LEMMA CountWorkers ==
  ASSUME NEW S, S \subseteq Workers
  PROVE  /\ IsFiniteSet(S) /\ Cardinality(S) \in Nat
         /\ Cardinality(Workers) \in Nat /\ Cardinality(S) <= Cardinality(Workers)
         /\ \A T \in SUBSET S : Cardinality(T) \in Nat /\ Cardinality(T) <= Cardinality(S)
         /\ \A w \in S : Cardinality(S \ {w}) = Cardinality(S) - 1
<1>1. IsFiniteSet(Workers) /\ IsFiniteSet(S)
  BY FS_Subset, SignInAssumption
<1>2. \A w \in S : Cardinality(S \ {w}) = Cardinality(S) - 1
  BY <1>1, FS_RemoveElement
<1>3. \A T \in SUBSET S : IsFiniteSet(T) /\ Cardinality(T) <= Cardinality(S)
  BY <1>1, FS_Subset
<1> QED BY <1>1, <1>2, <1>3, FS_Subset, FS_CardinalityType

LEMMA RationedInit == ASSUME Init PROVE AllRationed
<1>1. /\ uses.all = 0 /\ \A c \in Secrets \X TimeSteps : uses.of[c] = 0 /\ Traceless(c) = {} /\ Able(c) = {}
  BY DEF Init, Busy, Traceless, Able
<1>2. Cardinality(Workers) \in Nat
  BY CountWorkers
<1>3. Cardinality({}) = 0
  BY FS_EmptySet
<1>4. ASSUME NEW c \in Secrets \X TimeSteps PROVE Rationed(c)
  <2>1. /\ uses.of[c] = 0 /\ uses.all - uses.of[c] = 0
        /\ Cardinality(Traceless(c)) = 0 /\ Cardinality(Able(c)) = 0
    BY <1>1, <1>3
  <2>2. /\ Cardinality(Workers) * 0 = 0 /\ Cardinality(Workers) * (1 + 0) >= 0
        /\ uses.all = 0
    BY <1>1, <1>2
  <2> QED BY <2>1, <2>2 DEF Rationed
<1> QED BY <1>4 DEF AllRationed

LEMMA BeginRationed ==
  ASSUME Inv, Shown, AllRationed,
         NEW w \in Workers, NEW b \in Browsers, NEW op \in Ops, Begin(w, b, op)
  PROVE  AllRationed'
<1>1. /\ req'[w].op = op /\ req'[w].seen = account /\ Busy' = Busy \union {w}
      /\ \A v \in Busy : req'[v] = req[v]
      /\ UNCHANGED <<account, uses>>
      /\ "enrolment" \notin crossed' => "enrolment" \notin crossed
      /\ op = "enable" => ~account.on
  BY BeginFacts DEF Inv, Begin, Admits
<1> SUFFICES ASSUME "enrolment" \notin crossed', NEW c \in Secrets \X TimeSteps
             PROVE  Rationed(c)'
  BY DEF AllRationed
<1>2. Rationed(c) /\ "enrolment" \notin crossed
  BY <1>1 DEF AllRationed
<1>3. uses.of[c] \in Nat /\ uses.all \in Nat
  BY DEF Inv, TypeOK, Uses
<1>4. CASE account.last # c[2]
  <2>1. Traceless(c)' = Traceless(c)
    BY <1>1, <1>4 DEF Traceless
  <2> QED BY <1>1, <1>2, <1>4, <2>1 DEF Rationed
<1>5. CASE account.last = c[2] /\ Able(c)' = Able(c)
  BY <1>1, <1>2, <1>5 DEF Rationed
<1>6. CASE account.last = c[2] /\ Able(c)' # Able(c)
  <2>1. op = "enable" /\ account.secret = c[1]
    BY <1>1, <1>6 DEF Able
  <2>2. uses.of[c] = 0
    BY <1>1, <1>2, <2>1 DEF Shown
  <2>3. Able(c)' \subseteq Workers
    BY DEF Able, Busy
  <2>4. Cardinality(Able(c)') \in Nat /\ Cardinality(Able(c)') <= Cardinality(Workers)
        /\ Cardinality(Workers) \in Nat
    BY <2>3, CountWorkers
  <2>5. Cardinality(Workers) * uses.all \in Nat
        /\ Cardinality(Workers) * (1 + (uses.all - 0))
             = Cardinality(Workers) + Cardinality(Workers) * uses.all
    BY <1>3, <2>4
  <2> QED BY <1>1, <1>3, <1>6, <2>2, <2>4, <2>5 DEF Rationed
<1> QED BY <1>4, <1>5, <1>6

LEMMA AnswerRationed ==
  ASSUME Inv, Shown, AllRationed, NEW w \in Workers, Answer(w)
  PROVE  AllRationed'
<1> DEFINE r == req[w]  W == Cardinality(Workers)
<1>1. Presents(w) /\ Outcome(w) /\ TypeOK
  BY AnswerPresents, AnswerOutcome DEF Inv
<1>2. /\ w \in Busy /\ Busy' = Busy \ {w} /\ crossed' = crossed
      /\ \A v \in Busy' : v \in Busy /\ v # w /\ req'[v] = req[v]
  BY <1>1, AtType, Over DEF Outcome
<1> SUFFICES ASSUME "enrolment" \notin crossed, NEW c \in Secrets \X TimeSteps
             PROVE  Rationed(c)'
  BY <1>2 DEF AllRationed
<1> DEFINE n == uses.of[c]  o == uses.all - n
           able == Cardinality(Able(c))  able1 == Cardinality(Able(c)')
           bare == Cardinality(Traceless(c))  bare1 == Cardinality(Traceless(c)')
<1>3. /\ Able(c)' = Able(c) \ {w} /\ Traceless(c)' = Traceless(c) \ {w}
      /\ Traceless(c) \subseteq Able(c) /\ Able(c) \subseteq Workers
      /\ Able(c)' \subseteq Able(c) /\ Traceless(c)' \subseteq Traceless(c)
  BY <1>2 DEF Able, Traceless, Busy
<1>4. /\ able \in Nat /\ able1 \in Nat /\ bare \in Nat /\ bare1 \in Nat /\ W \in Nat
      /\ able <= W /\ able1 <= able /\ bare <= able /\ bare1 <= bare
      /\ w \in Able(c) => able1 = able - 1
      /\ w \in Traceless(c) => bare1 = bare - 1
  <2>1. Traceless(c) \subseteq Workers
    BY <1>3
  <2> QED BY <1>3, <2>1, CountWorkers
<1>5. /\ n \in Nat /\ uses.all \in Nat /\ n <= uses.all /\ o \in Nat
      /\ account.last # c[2] => n + bare <= W * o
      /\ account.last = c[2] => n + able <= W * (1 + o)
  <2>1. n \in Nat /\ uses.all \in Nat
    BY <1>1 DEF TypeOK, Uses
  <2>2. Rationed(c)
    BY DEF AllRationed
  <2> QED BY <2>1, <2>2 DEF Rationed
<1>6. /\ W * o \in Nat /\ W * (1 + o) = W * o + W /\ W * (2 + o) = W * o + W + W
      /\ W * (1 + (1 + o)) = W * (2 + o)
  BY <1>4, <1>5
<1>7. CASE uses' = uses /\ account'.last = account.last
  <2> HIDE DEF able, able1, bare, bare1, W
  <2>1. /\ uses'.of[c] = n /\ uses'.all = uses.all
        /\ account.last # c[2] => n + bare1 <= W * o
        /\ account.last = c[2] => n + able1 <= W * (1 + o)
    BY <1>4, <1>5, <1>6, <1>7
  <2> QED BY <1>5, <1>7, <2>1 DEF Rationed, able1, bare1, W
<1>8. ASSUME NEW s \in TimeSteps, Used(r.seen, s), r.op \in {"verify", "disable", "enable"},
             r.seen.secret \in Secrets, r.op # "enable" => s # r.seen.last,
             account'.last = IF s # r.seen.last THEN s ELSE account.last
      PROVE  Rationed(c)'
  <2>1. /\ uses'.all = uses.all + 1
        /\ uses'.of[c] = IF c = <<r.seen.secret, s>> THEN n + 1 ELSE n
    BY <1>1, <1>8, UsedCount
  <2>2. CASE c # <<r.seen.secret, s>>
    <3>1. uses'.of[c] = n /\ uses'.all - n = 1 + o
      BY <1>5, <2>1, <2>2
    <3>2. n + bare1 <= W * (1 + o) /\ n + able1 <= W * (1 + (1 + o))
      <4> HIDE DEF able, able1, bare, bare1, W, n, o
      <4>1. CASE account.last # c[2]
        BY <1>4, <1>5, <1>6, <4>1
      <4>2. CASE account.last = c[2]
        BY <1>4, <1>5, <1>6, <4>2
      <4> QED BY <4>1, <4>2
    <3> QED BY <1>5, <2>1, <3>1, <3>2 DEF Rationed
  <2>3. CASE c = <<r.seen.secret, s>>
    <3>1. c[1] = r.seen.secret /\ c[2] = s /\ w \in Able(c)
      BY <1>2, <1>8, <2>3 DEF Able
    <3>2. uses'.of[c] = n + 1 /\ uses'.all - uses'.of[c] = o
      BY <1>5, <2>1, <2>3
    <3>3. CASE account'.last = s
      <4>1. n + 1 + able1 <= W * (1 + o)
        <5> HIDE DEF able, able1, bare, bare1, W, n, o
        <5> QED BY <1>4, <1>5, <1>6, <3>1
      <4> QED BY <1>5, <2>1, <3>1, <3>2, <3>3, <4>1 DEF Rationed
    <3>4. CASE account'.last # s
      <4>1. s = r.seen.last /\ r.op = "enable" /\ account'.last = account.last
        BY <1>8, <3>4
      <4>2. w \in Traceless(c)
        BY <1>2, <3>1, <4>1 DEF Traceless
      <4>3. n + 1 + bare1 <= W * o
        <5> HIDE DEF able, able1, bare, bare1, W, n, o
        <5> QED BY <1>4, <1>5, <1>6, <3>1, <3>4, <4>1, <4>2
      <4> QED BY <1>5, <2>1, <3>1, <3>2, <3>4, <4>3 DEF Rationed
    <3> QED BY <3>3, <3>4
  <2> QED BY <2>2, <2>3
<1> QED BY <1>1, <1>7, <1>8 DEF Presents

LEMMA RationedNext ==
  ASSUME Inv, Shown, AllRationed, [Next]_vars
  PROVE  Shown' /\ AllRationed'
<1>1. ASSUME UNCHANGED <<req, made, proven, uses, crossed>>, Untouched, account'.last = account.last
      PROVE  Shown' /\ AllRationed'
  <2>1. Shown'
    BY <1>1 DEF Shown, Busy, Untouched
  <2>2. AllRationed'
    BY <1>1 DEF AllRationed, Rationed, Able, Traceless, Busy
  <2> QED BY <2>1, <2>2
<1>2. CASE LockEnds
  BY <1>1, <1>2 DEF LockEnds, history, Inv, TypeOK, AccountRows, Untouched
<1>3. CASE \E b \in Browsers : SessionEnds(b)
  BY <1>1, <1>3 DEF SessionEnds, history, Untouched
<1>4. CASE UNCHANGED vars
  BY <1>1, <1>4 DEF vars, history, Untouched
<1> QED BY <1>2, <1>3, <1>4, BeginShown, AnswerShown, BeginRationed, AnswerRationed DEF Next

-----------------------------------------------------------------------------
(* Theorems                                                                *)

(* The row, the requests and the books stay in their types.                *)
THEOREM SignInTyped == Spec => []TypeOK
<1>1. Inv => TypeOK
  BY DEF Inv
<1> QED BY <1>1, InvInit, InvNext, PTL DEF Spec

(* A factor that is switched on has a secret that a code was shown for, as *)
(* long as no request that switches it on overlapped with one that         *)
(* replaces or drops the secret (auth.py:973, 1004).                       *)
THEOREM SwitchedOnIsProven == Spec => []OnIsProven
<1>1. Inv => OnIsProven
  BY DEF Inv, Enrolled, OnIsProven
<1> QED BY <1>1, InvInit, InvNext, PTL DEF Spec

(* A recovery code that was used or replaced is in no list again, as long  *)
(* as no verification overlapped with another writer of it (auth.py:430).  *)
THEOREM DeadCodesNeverReturn == Spec => []DeadCodesStayDead
<1>1. Inv => DeadCodesStayDead
  BY DEF Inv, Recovered, DeadCodesStayDead
<1> QED BY <1>1, InvInit, InvNext, PTL DEF Spec

(* A lock goes when its time is over, or with a sign-in that had read an   *)
(* earlier lock that was over (auth.py:327, 341).                          *)
THEOREM NoLockIsTakenBack == Spec => LockStands
<1> DEFINE Step ==
             Locked(account) /\ ~Locked(account') =>
               \/ account'.lock = "over"
               \/ \E w \in Workers : req[w] # None /\ req'[w] = None /\ req[w].seen.lock = "over"
<1>1. ASSUME Inv, [Next]_vars PROVE [Step]_vars
  <2>1. CASE \E w \in Workers, b \in Browsers, op \in Ops : Begin(w, b, op)
    BY <2>1 DEF Begin, Locked
  <2>2. ASSUME NEW w \in Workers, Answer(w) PROVE Step
    <3>1. Outcome(w) /\ req \in [Workers -> Requests \union {None}]
      BY <1>1, <2>2, AnswerOutcome DEF Inv, TypeOK
    <3> QED BY <3>1 DEF Outcome
  <2>3. CASE LockEnds
    BY <1>1, <2>3 DEF LockEnds, Inv, TypeOK, AccountRows
  <2>4. CASE \E b \in Browsers : SessionEnds(b)
    BY <2>4 DEF SessionEnds
  <2> QED BY <1>1, <2>1, <2>2, <2>3, <2>4 DEF Next
<1> QED BY <1>1, InvInit, InvNext, PTL DEF Spec, LockStands

(* One request at a time: an account is locked by the failure that makes   *)
(* login_max_failures.  Two at a time lose counts to one another           *)
(* (security.py:95, read and written back), but the account is locked      *)
(* after 1 + 2 + ... + login_max_failures of them at the latest.           *)
THEOREM AccountsAreLockedInTime == Spec => []LockedInTime
<1>1. Inv /\ Tallied => LockedInTime
  <2> SUFFICES ASSUME Inv, Tallied PROVE LockedInTime
    OBVIOUS
  <2>1. /\ account.fails \in 0..MaxFailures - 1 /\ misses \in Nat
        /\ account.fails < MaxFailures /\ MaxFailures \in Nat
    BY SignInAssumption DEF Inv, TypeOK, AccountRows, Tallied, InCount
  <2>2. /\ Ceiling(account.fails) < MaxFailures * (MaxFailures + 1)
        /\ Ceiling(account.fails) \in Nat
    BY <2>1, CeilingGrows
  <2>3. MaxFailures * (MaxFailures + 1) \in Nat
    BY <2>1
  <2> QED BY <2>1, <2>2, <2>3 DEF Tallied, ByOne, ByTwo, LockedInTime
<1>2. Init => Inv /\ Tallied
  BY InvInit, TalliedInit
<1>3. Inv /\ Tallied /\ [Next]_vars => (Inv /\ Tallied)'
  BY InvNext, TalliedNext
<1> QED BY <1>1, <1>2, <1>3, PTL DEF Spec

(* A TOTP code is accepted by those who had read the row before it was     *)
(* accepted, and once more after each code of another step (auth.py:412),  *)
(* as long as one request at a time sets the factor up.                    *)
THEOREM CodesAreRationed == Spec => []CodeUses
<1>1. ASSUME Inv, AllRationed PROVE CodeUses
  <2> SUFFICES ASSUME "enrolment" \notin crossed, NEW c \in Secrets \X TimeSteps
               PROVE  uses.of[c] <= Cardinality(Workers) * (1 + uses.all - uses.of[c])
    BY <1>1 DEF Inv, TypeOK, Uses, CodeUses
  <2> DEFINE n == uses.of[c]  o == uses.all - n  W == Cardinality(Workers)
             able == Cardinality(Able(c))  bare == Cardinality(Traceless(c))
  <2>1. n \in Nat /\ uses.all \in Nat /\ Rationed(c)
    BY <1>1 DEF Inv, TypeOK, Uses, AllRationed
  <2>2. able \in Nat /\ bare \in Nat /\ W \in Nat
    <3>1. Able(c) \subseteq Workers /\ Traceless(c) \subseteq Workers
      BY DEF Able, Traceless, Busy
    <3> QED BY <3>1, CountWorkers
  <2>3. /\ o \in Nat /\ 1 + uses.all - n = 1 + o
        /\ n + bare <= W * o \/ n + able <= W * (1 + o)
    BY <2>1 DEF Rationed
  <2> HIDE DEF o, W, able, bare
  <2>4. W * o \in Nat /\ W * (1 + o) = W * o + W
    BY <2>2, <2>3
  <2>5. n <= W * (1 + o)
    BY <2>1, <2>2, <2>3, <2>4
  <2> QED BY <2>3, <2>5 DEF W
<1>2. Init => Inv /\ Shown /\ AllRationed
  BY InvInit, ShownInit, RationedInit
<1>3. Inv /\ Shown /\ AllRationed /\ [Next]_vars => (Inv /\ Shown /\ AllRationed)'
  BY InvNext, RationedNext
<1> QED BY <1>1, <1>2, <1>3, PTL DEF Spec
=============================================================================
