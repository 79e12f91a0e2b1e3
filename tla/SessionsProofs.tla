---------------------------- MODULE SessionsProofs ----------------------------
(***************************************************************************)
(* Proofs about Sessions, for every set of devices and workers and any     *)
(* number of requests, faults and sessions that age.                       *)
(***************************************************************************)
EXTENDS Sessions, TLAPS

-----------------------------------------------------------------------------
(* Types                                                                   *)

LEMMA FreshType ==
  ASSUME TypeOK, NEW op \in Ops, NEW d \in Devices \union {None}
  PROVE  Fresh(op, d) \in Requests
<1>1. (IF d = None THEN None ELSE jar[d].ref) \in Tokens \union {None}
  BY DEF TypeOK
<1> QED BY <1>1 DEF Fresh, Requests, PCs

(* Changing the fields a request may change.                               *)
LEMMA RequestType ==
  ASSUME NEW r \in Requests
  PROVE  /\ \A pc \in PCs : [r EXCEPT !.pc = pc] \in Requests
         /\ \A pc \in PCs, g \in Nat : [r EXCEPT !.pc = pc, !.gen = g] \in Requests
         /\ \A pc \in PCs, x \in Rows : [r EXCEPT !.pc = pc, !.row = x] \in Requests
         /\ \A pc \in PCs, xs \in SUBSET Rows :
              [r EXCEPT !.pc = pc, !.seen = xs] \in Requests
         /\ \A pc \in PCs, l \in Links : [r EXCEPT !.pc = pc, !.link = l] \in Requests
         /\ \A pc \in PCs, p \in Pairs : [r EXCEPT !.pc = pc, !.pair = p] \in Requests
         /\ \A ds \in SUBSET Devices : [r EXCEPT !.quiet = ds] \in Requests
BY DEF Requests

LEMMA BeginType ==
  ASSUME TypeOK, NEW w \in Workers, NEW r \in Requests, Begin(w, r)
  PROVE  /\ req' \in [Workers -> Requests \union {None}]
         /\ spent' \in [requests : Nat, faults : Nat, ageing : Nat]
<1>1. \A v \in Workers : req[v] \in Requests \union {None}
  BY DEF TypeOK
<1>2. [r EXCEPT !.quiet = {d \in Devices : ~Busy(d)} \ {r.dev}] \in Requests
  BY RequestType
<1>3. ASSUME NEW v \in Workers, req[v] # None
      PROVE  [req[v] EXCEPT !.quiet = @ \ {r.dev}] \in Requests
  <2>1. req[v] \in Requests /\ req[v].quiet \ {r.dev} \in SUBSET Devices
    BY <1>1, <1>3 DEF Requests
  <2> QED BY <2>1, RequestType
<1>4. req' \in [Workers -> Requests \union {None}]
  BY <1>2, <1>3 DEF Begin
<1>5. spent' \in [requests : Nat, faults : Nat, ageing : Nat]
  BY DEF Begin, TypeOK
<1> QED BY <1>4, <1>5

LEMMA GotoType ==
  ASSUME TypeOK, NEW w \in Workers, NEW r \in Requests \union {None}, Goto(w, r)
  PROVE  req' \in [Workers -> Requests \union {None}]
BY DEF TypeOK, Goto

LEMMA AtType ==
  ASSUME TypeOK, NEW w \in Workers, req[w] # None
  PROVE  req[w] \in Requests
BY DEF TypeOK

LEMMA TypeInit == ASSUME Init PROVE TypeOK
<1> USE SessionsAssumption
<1>1. user \in [gen : Nat, active : BOOLEAN]
  BY DEF Init
<1>2. row \in [Rows -> SessionRows \union {None}]
  <2>1. \A r \in Rows : SeatOf(r) # {} => r \in Tokens
    BY DEF SeatOf
  <2> QED BY <2>1 DEF Init, SessionRows
<1>3. link \in [Links -> [purpose : {"invite", "reset", "none"},
                         consumed : BOOLEAN, uses : Nat]]
  BY DEF Init, NoLink
<1>4. jar \in [Devices -> [acc : Nat \union {None}, ref : Tokens \union {None}]]
  BY DEF Init, NoCookies
<1>5. req \in [Workers -> Requests \union {None}] /\ cut = {} /\ excused = {}
  BY DEF Init
<1>6. spent \in [requests : Nat, faults : Nat, ageing : Nat]
  BY DEF Init
<1> QED BY <1>1, <1>2, <1>3, <1>4, <1>5, <1>6 DEF TypeOK

LinkRows == [purpose : {"invite", "reset", "none"}, consumed : BOOLEAN, uses : Nat]

(* Changing one column of a row.                                           *)
LEMMA ColumnTypes ==
  /\ \A x \in SessionRows : /\ [x EXCEPT !.idle = TRUE] \in SessionRows
                            /\ [x EXCEPT !.idle = FALSE] \in SessionRows
                            /\ [x EXCEPT !.expired = TRUE] \in SessionRows
  /\ \A x \in LinkRows : /\ [x EXCEPT !.purpose = "reset"] \in LinkRows
                         /\ [x EXCEPT !.consumed = TRUE] \in LinkRows
                         /\ [x EXCEPT !.consumed = TRUE, !.uses = @ + 1] \in LinkRows
<1>1. ASSUME NEW x \in SessionRows, NEW b \in BOOLEAN
      PROVE  [x EXCEPT !.idle = b] \in SessionRows /\ [x EXCEPT !.expired = b] \in SessionRows
  BY DEF SessionRows
<1>2. ASSUME NEW x \in LinkRows, NEW p \in {"invite", "reset", "none"}
      PROVE  [x EXCEPT !.purpose = p] \in LinkRows
  BY DEF LinkRows
<1>3. ASSUME NEW x \in LinkRows, NEW b \in BOOLEAN, NEW n \in Nat
      PROVE  /\ [x EXCEPT !.consumed = b] \in LinkRows
             /\ [x EXCEPT !.consumed = b, !.uses = n] \in LinkRows
  BY DEF LinkRows
<1>4. \A x \in LinkRows : x.uses + 1 \in Nat
  BY DEF LinkRows
<1>5. ASSUME NEW x \in LinkRows
      PROVE  [x EXCEPT !.consumed = TRUE, !.uses = @ + 1] \in LinkRows
  BY <1>3, <1>4, <1>5
<1> QED BY <1>1, <1>2, <1>3, <1>5

(* The rows a write leaves behind.                                         *)
LEMMA RowTypes ==
  ASSUME TypeOK
  PROVE  /\ \A r, j : j \in Tokens /\ (r \in Rows => row[r] # None) =>
              Rotated(r, j) \in [Rows -> SessionRows \union {None}]
         /\ \A rs : (\A r \in rs : row[r] # None) =>
              Revoked(rs) \in [Rows -> SessionRows \union {None}]
         /\ Bumped \in [gen : Nat, active : BOOLEAN]
         /\ \A j \in Least(FreeTokens) : j \in Tokens
         /\ \A r \in Least(FreeRows) : r \in Rows
<1>1. \A r \in Rows : row[r] # None => row[r] \in SessionRows
  BY DEF TypeOK
<1>2. ASSUME NEW r, NEW j, j \in Tokens, r \in Rows => row[r] # None
      PROVE  Rotated(r, j) \in [Rows -> SessionRows \union {None}]
  <2>1. CASE r \in Rows
    <3> DEFINE x == [row[r] EXCEPT !.jti = j, !.idle = FALSE, !.expired = FALSE]
    <3>1. x \in SessionRows
      BY <1>1, <1>2, <2>1 DEF SessionRows
    <3>2. Rotated(r, j) = [row EXCEPT ![r] = x]
      BY <2>1 DEF Rotated, TypeOK
    <3> HIDE DEF x
    <3> QED BY <3>1, <3>2 DEF TypeOK
  <2>2. CASE r \notin Rows
    BY <2>2 DEF Rotated, TypeOK
  <2> QED BY <2>1, <2>2
<1>3. ASSUME NEW rs, \A r \in rs : row[r] # None
      PROVE  Revoked(rs) \in [Rows -> SessionRows \union {None}]
  <2>1. \A r \in Rows \intersect rs : [row[r] EXCEPT !.revoked = TRUE] \in SessionRows
    BY <1>1, <1>3 DEF SessionRows
  <2> QED BY <2>1 DEF Revoked, TypeOK
<1>4. Bumped \in [gen : Nat, active : BOOLEAN]
  BY DEF Bumped, TypeOK
<1> QED BY <1>2, <1>3, <1>4 DEF Least, FreeTokens, FreeRows

LEMMA RequestStepType ==
  ASSUME TypeOK, NEW w \in Workers, Request(w)
  PROVE  TypeOK'
<1> USE SessionsAssumption
<1>1. ASSUME NEW r \in Requests, BeginAt(w, r) PROVE TypeOK'
  <2>1. /\ req' \in [Workers -> Requests \union {None}]
        /\ spent' \in [requests : Nat, faults : Nat, ageing : Nat]
    BY <1>1, BeginType DEF BeginAt
  <2> QED BY <1>1, <2>1 DEF TypeOK, BeginAt, stored
<1>2. ASSUME NEW d \in Devices, Login(w, d) PROVE TypeOK'
  <2>1. PICK pc \in {"prune", "create"} :
          Begin(w, [Fresh("login", d) EXCEPT !.pc = pc, !.gen = user.gen])
    BY <1>2 DEF Login
  <2>2. [Fresh("login", d) EXCEPT !.pc = pc, !.gen = user.gen] \in Requests
    <3>1. Fresh("login", d) \in Requests /\ user.gen \in Nat /\ pc \in PCs
      BY FreshType DEF Ops, PCs, TypeOK
    <3> QED BY <3>1, RequestType
  <2>3. /\ req' \in [Workers -> Requests \union {None}]
        /\ spent' \in [requests : Nat, faults : Nat, ageing : Nat]
    BY <2>1, <2>2, BeginType
  <2> QED BY <1>2, <2>3 DEF TypeOK, Login, stored
<1>3. ASSUME NEW d \in Devices, Refresh(w, d) \/ Activity(w, d) PROVE TypeOK'
  <2>1. Fresh("refresh", d) \in Requests /\ Fresh("activity", d) \in Requests
    BY FreshType DEF Ops
  <2> QED BY <1>1, <1>3, <2>1 DEF Refresh, Activity
<1>4. ASSUME NEW d \in Devices, SwitchTenant(w, d) PROVE TypeOK'
  <2>1. Fresh("switch", d) \in Requests /\ user.gen \in Nat
    BY FreshType DEF Ops, TypeOK
  <2>2. [Fresh("switch", d) EXCEPT !.gen = user.gen] \in Requests
    BY <2>1 DEF Requests
  <2> QED BY <1>1, <1>4, <2>2 DEF SwitchTenant
<1>5. ASSUME NEW d \in Devices, Logout(w, d) PROVE TypeOK'
  <2>1. [Fresh("logout", d) EXCEPT !.pc = "end"] \in Requests
    <3>1. Fresh("logout", d) \in Requests /\ "end" \in PCs
      BY FreshType DEF Ops, PCs
    <3> QED BY <3>1, RequestType
  <2>2. /\ req' \in [Workers -> Requests \union {None}]
        /\ spent' \in [requests : Nat, faults : Nat, ageing : Nat]
    BY <1>5, <2>1, BeginType DEF Logout
  <2> QED BY <1>5, <2>2 DEF TypeOK, Logout, stored
<1>6. ASSUME NEW d \in Devices, RevokeOthers(w, d) PROVE TypeOK'
  <2>1. PICK op \in {"others", "password"} : BeginAt(w, [Fresh(op, d) EXCEPT !.pc = "list"])
    BY <1>6 DEF RevokeOthers
  <2>2. [Fresh(op, d) EXCEPT !.pc = "list"] \in Requests
    <3>1. op \in Ops /\ "list" \in PCs
      BY DEF Ops, PCs
    <3> QED BY <3>1, FreshType, RequestType
  <2> QED BY <1>1, <2>1, <2>2
<1>7. CASE SendReset(w)
  <2>1. [Fresh("issue", None) EXCEPT !.pc = "void"] \in Requests
    <3>1. Fresh("issue", None) \in Requests /\ "void" \in PCs
      BY FreshType DEF Ops, PCs
    <3> QED BY <3>1, RequestType
  <2> QED BY <1>1, <1>7, <2>1 DEF SendReset
<1>8. ASSUME NEW l \in Links, Redeem(w, l) PROVE TypeOK'
  <2>1. [Fresh(link[l].purpose, None) EXCEPT !.pc = "consume", !.link = l] \in Requests
    <3>1. link[l].purpose \in Ops /\ "consume" \in PCs
      BY DEF Ops, PCs, TypeOK
    <3>2. Fresh(link[l].purpose, None) \in Requests
      BY <3>1, FreshType
    <3> QED BY <3>1, <3>2, RequestType
  <2> QED BY <1>1, <1>8, <2>1 DEF Redeem
<1> QED BY <1>2, <1>3, <1>4, <1>5, <1>6, <1>7, <1>8 DEF Request

LEMMA WorkStepType ==
  ASSUME TypeOK, NEW w \in Workers, Work(w)
  PROVE  TypeOK'
<1> USE SessionsAssumption
<1> DEFINE r == req[w]
<1>0. r # None => r \in Requests
  BY AtType
<1>1. ASSUME NEW q \in Requests \union {None}, Step(w, q) PROVE TypeOK'
  <2>1. req' \in [Workers -> Requests \union {None}]
    BY <1>1, GotoType DEF Step
  <2> QED BY <1>1, <2>1 DEF TypeOK, Step, stored, history
<1>2. Fail(w) => TypeOK'
  BY <1>1 DEF Fail
<1>3. ASSUME NEW q \in Requests \union {None}, Goto(w, q),
             row' \in [Rows -> SessionRows \union {None}],
             user' \in [gen : Nat, active : BOOLEAN],
             UNCHANGED <<link, jar, spent>>, cut' \subseteq Devices, excused' \subseteq Devices
      PROVE  TypeOK'
  <2>1. req' \in [Workers -> Requests \union {None}]
    BY <1>3, GotoType
  <2> QED BY <1>3, <2>1 DEF TypeOK
<1>4. ASSUME NEW x \in Rows, NEW j \in Tokens
      PROVE  [row EXCEPT ![x] = [jti |-> j, revoked |-> FALSE,
                                 idle |-> FALSE, expired |-> FALSE]]
               \in [Rows -> SessionRows \union {None}]
  BY DEF TypeOK, SessionRows
<1>5. CASE Prune(w)
  <2>1. [r EXCEPT !.pc = "create"] \in Requests
    BY <1>0, <1>5, RequestType DEF Prune, At, PCs
  <2>2. row' \in [Rows -> SessionRows \union {None}]
    BY <1>5 DEF Prune, TypeOK
  <2> QED BY <1>3, <1>5, <2>1, <2>2 DEF Prune, TypeOK, history
<1>6. CASE Create(w)
  <2>1. PICK x \in Least(FreeRows), j \in Least(FreeTokens) :
          /\ row' = [row EXCEPT ![x] = [jti |-> j, revoked |-> FALSE,
                                        idle |-> FALSE, expired |-> FALSE]]
          /\ Goto(w, [r EXCEPT !.pc = "respond", !.pair = [acc |-> r.gen, ref |-> j]])
    BY <1>6 DEF Create
  <2>2. x \in Rows /\ j \in Tokens
    BY RowTypes
  <2>3. r \in Requests /\ r.gen \in Nat
    BY <1>0, <1>6 DEF Create, At, Requests
  <2>4. [r EXCEPT !.pc = "respond", !.pair = [acc |-> r.gen, ref |-> j]] \in Requests
    BY <2>2, <2>3, RequestType DEF Pairs, PCs
  <2>5. row' \in [Rows -> SessionRows \union {None}]
    BY <1>4, <2>1, <2>2
  <2> QED BY <1>3, <1>6, <2>1, <2>4, <2>5 DEF Create, TypeOK, history
<1>7. CASE ReadRow(w)
  <2>1. r \in Requests
    BY <1>0, <1>7 DEF ReadRow, At
  <2>2. [r EXCEPT !.pc = "list"] \in Requests
    BY <2>1, RequestType DEF PCs
  <2>3. \A x \in Rows : [r EXCEPT !.pc = "end", !.row = x] \in Requests
    BY <2>1, RequestType DEF PCs
  <2>4. \A x \in Rows : [r EXCEPT !.pc = AfterRow(r.op), !.row = x] \in Requests
    BY <2>1, RequestType DEF PCs, AfterRow
  <2> QED BY <1>1, <1>2, <1>7, <2>2, <2>3, <2>4 DEF ReadRow, RowOf
<1>8. CASE ReadAccount(w)
  <2>1. r \in Requests /\ user.gen \in Nat
    BY <1>0, <1>8 DEF ReadAccount, At, TypeOK
  <2>2. [r EXCEPT !.pc = "rotate", !.gen = user.gen] \in Requests
    BY <2>1, RequestType DEF PCs
  <2> QED BY <1>1, <1>2, <1>8, <2>2 DEF ReadAccount
<1>9. CASE Touch(w)
  <2>1. CASE Fail(w)
    BY <1>2, <2>1
  <2>2. CASE row[r.row] # None /\ row' = [row EXCEPT ![r.row].idle = FALSE]
             /\ Drop(w) /\ UNCHANGED <<user, link, jar, spent, history>>
    <3>1. row' \in [Rows -> SessionRows \union {None}]
      BY <2>2, ColumnTypes DEF TypeOK
    <3> QED BY <1>3, <2>2, <3>1 DEF Drop, TypeOK, history
  <2> QED BY <1>9, <2>1, <2>2 DEF Touch
<1>10. CASE Rotate(w)
  <2>1. CASE Fail(w)
    BY <1>2, <2>1
  <2>2. CASE /\ row[r.row] # None
             /\ \E j \in Least(FreeTokens) :
                  /\ row' = Rotated(r.row, j)
                  /\ Goto(w, [r EXCEPT !.pc = "respond", !.pair = [acc |-> r.gen, ref |-> j]])
             /\ UNCHANGED <<user, link, jar, spent, history>>
    <3>1. PICK j \in Least(FreeTokens) :
                  /\ row' = Rotated(r.row, j)
                  /\ Goto(w, [r EXCEPT !.pc = "respond", !.pair = [acc |-> r.gen, ref |-> j]])
      BY <2>2
    <3>2. j \in Tokens /\ r \in Requests /\ r.gen \in Nat
      BY <1>0, <1>10, RowTypes DEF Rotate, At, Requests
    <3>3. [r EXCEPT !.pc = "respond", !.pair = [acc |-> r.gen, ref |-> j]] \in Requests
      BY <3>2, RequestType DEF Pairs, PCs
    <3>4. row' \in [Rows -> SessionRows \union {None}]
      BY <2>2, <3>1, <3>2, RowTypes
    <3> QED BY <1>3, <2>2, <3>1, <3>3, <3>4 DEF TypeOK, history
  <2> QED BY <1>10, <2>1, <2>2 DEF Rotate
<1>11. CASE End(w)
  <2>1. r \in Requests
    BY <1>0, <1>11 DEF End, At
  <2>2. [r EXCEPT !.pc = "bump"] \in Requests
    BY <2>1, RequestType DEF PCs
  <2>3. row' \in [Rows -> SessionRows \union {None}]
    BY <1>11 DEF End, TypeOK
  <2>4. excused' \subseteq Devices
    BY <1>11 DEF End, TypeOK
  <2> QED BY <1>3, <1>11, <2>2, <2>3, <2>4 DEF End, TypeOK
<1>12. CASE Bump(w)
  <2>1. r \in Requests
    BY <1>0, <1>12 DEF Bump, At
  <2>2. [r EXCEPT !.pc = "respond"] \in Requests
    BY <2>1, RequestType DEF PCs
  <2>3. user' \in [gen : Nat, active : BOOLEAN]
    BY <1>12, RowTypes DEF Bump
  <2> QED BY <1>3, <1>12, <2>2, <2>3 DEF Bump, Drop, TypeOK, history
<1>13. CASE List(w)
  <2>1. r \in Requests
    BY <1>0, <1>13 DEF List, At
  <2>2. \A pc \in PCs, xs \in SUBSET Rows : [r EXCEPT !.pc = pc, !.seen = xs] \in Requests
    BY <2>1, RequestType
  <2>3. \A pc \in {"write", "revoke"}, xs \in {Listed \ RowOf(r.jti), Listed} :
          pc \in PCs /\ xs \in SUBSET Rows
    BY DEF PCs, Listed
  <2> QED BY <1>1, <1>13, <2>2, <2>3 DEF List
<1>14. CASE WriteOthers(w)
  <2>1. CASE Fail(w)
    BY <1>2, <2>1
  <2>2. CASE /\ ~SeenGone(w) /\ row' = Revoked(r.seen)
             /\ Goto(w, [r EXCEPT !.pc = "own"])
             /\ excused' = excused \union (Devices \ {r.dev})
             /\ UNCHANGED <<user, link, jar, spent, cut>>
    <3>1. r \in Requests
      BY <1>0, <1>14 DEF WriteOthers, At
    <3>2. [r EXCEPT !.pc = "own"] \in Requests
      BY <3>1, RequestType DEF PCs
    <3>3. row' \in [Rows -> SessionRows \union {None}]
      BY <2>2, RowTypes DEF SeenGone
    <3>4. excused' \subseteq Devices
      BY <2>2 DEF TypeOK
    <3> QED BY <1>3, <2>2, <3>2, <3>3, <3>4 DEF TypeOK
  <2> QED BY <1>14, <2>1, <2>2 DEF WriteOthers
<1>15. CASE ReadOwn(w)
  <2>1. r \in Requests
    BY <1>0, <1>15 DEF ReadOwn, At
  <2>2. [r EXCEPT !.pc = "reissue"] \in Requests
    BY <2>1, RequestType DEF PCs
  <2>3. \A x \in Rows : [r EXCEPT !.pc = "reissue", !.row = x] \in Requests
    BY <2>1, RequestType DEF PCs
  <2> QED BY <1>1, <1>15, <2>2, <2>3 DEF ReadOwn, RowOf
<1>16. CASE Reissue(w)
  <2>1. r \in Requests /\ r.quiet \subseteq Devices
    BY <1>0, <1>16 DEF Reissue, At, Requests
  <2>2. user' = Bumped /\ cut' = cut \union r.quiet /\ UNCHANGED <<link, jar, spent, excused>>
        => /\ user' \in [gen : Nat, active : BOOLEAN] /\ cut' \subseteq Devices
           /\ excused' \subseteq Devices
    BY <2>1, RowTypes DEF TypeOK
  <2>3. CASE Fail(w)
    BY <1>2, <2>3
  <2>4. CASE /\ row' = row /\ Goto(w, [r EXCEPT !.pc = "respond"]) /\ user' = Bumped
             /\ cut' = cut \union r.quiet /\ UNCHANGED <<link, jar, spent, excused>>
    <3>1. [r EXCEPT !.pc = "respond"] \in Requests
      BY <2>1, RequestType DEF PCs
    <3>2. row' \in [Rows -> SessionRows \union {None}]
      BY <2>4 DEF TypeOK
    <3> QED BY <1>3, <2>2, <2>4, <3>1, <3>2
  <2>5. CASE /\ r.row # None /\ row[r.row] # None /\ user' = Bumped
             /\ \E j \in Least(FreeTokens) :
                  /\ row' = Rotated(r.row, j)
                  /\ Goto(w, [r EXCEPT !.pc = "respond",
                                      !.pair = [acc |-> Bumped.gen, ref |-> j]])
             /\ cut' = cut \union r.quiet /\ UNCHANGED <<link, jar, spent, excused>>
    <3>1. PICK j \in Least(FreeTokens) :
            /\ row' = Rotated(r.row, j)
            /\ Goto(w, [r EXCEPT !.pc = "respond", !.pair = [acc |-> Bumped.gen, ref |-> j]])
      BY <2>5
    <3>2. j \in Tokens /\ Bumped.gen \in Nat
      BY RowTypes
    <3>3. [acc |-> Bumped.gen, ref |-> j] \in Pairs
      BY <3>2 DEF Pairs
    <3>4. [r EXCEPT !.pc = "respond", !.pair = [acc |-> Bumped.gen, ref |-> j]] \in Requests
      BY <2>1, <3>3, RequestType DEF PCs
    <3>5. row' \in [Rows -> SessionRows \union {None}]
      BY <2>5, <3>1, <3>2, RowTypes
    <3> QED BY <1>3, <2>2, <2>5, <3>1, <3>4, <3>5
  <2> QED BY <1>16, <2>3, <2>4, <2>5 DEF Reissue
<1>17. CASE RevokeAll(w)
  <2>1. CASE Fail(w)
    BY <1>2, <2>1
  <2>2. CASE /\ ~SeenGone(w) /\ user' = Bumped /\ row' = Revoked(r.seen)
             /\ cut' = cut \union r.quiet /\ excused' = Devices
             /\ Drop(w) /\ UNCHANGED <<link, jar, spent>>
    <3>1. r \in Requests /\ r.quiet \subseteq Devices
      BY <1>0, <1>17 DEF RevokeAll, At, Requests
    <3>2. row' \in [Rows -> SessionRows \union {None}]
      BY <2>2, RowTypes DEF SeenGone
    <3>3. user' \in [gen : Nat, active : BOOLEAN] /\ cut' \subseteq Devices
      BY <2>2, <3>1, RowTypes DEF TypeOK
    <3> QED BY <1>3, <2>2, <3>2, <3>3 DEF Drop
  <2> QED BY <1>17, <2>1, <2>2 DEF RevokeAll
<1>18. ASSUME NEW q \in Requests \union {None}, Goto(w, q), UNCHANGED <<row, jar, spent, history>>,
              user' \in [gen : Nat, active : BOOLEAN],
              link' \in [Links -> LinkRows]
       PROVE  TypeOK'
  <2>1. req' \in [Workers -> Requests \union {None}]
    BY <1>18, GotoType
  <2> QED BY <1>18, <2>1 DEF TypeOK, LinkRows, history
<1>19. CASE Void(w)
  <2>1. [r EXCEPT !.pc = "mint"] \in Requests
    BY <1>0, <1>19, RequestType DEF Void, At, PCs
  <2>2. link' \in [Links -> LinkRows]
    <3>1. \A l \in Links : link[l] \in LinkRows /\ [link[l] EXCEPT !.consumed = TRUE] \in LinkRows
      BY ColumnTypes DEF TypeOK, LinkRows
    <3> QED BY <1>19, <3>1 DEF Void
  <2> QED BY <1>18, <1>19, <2>1, <2>2 DEF Void, TypeOK
<1>20. CASE Mint(w)
  <2>1. PICK l \in Least(Unissued) : link' = [link EXCEPT ![l].purpose = "reset"]
    BY <1>20 DEF Mint
  <2>2. link' \in [Links -> LinkRows]
    <3>1. l \in Links /\ link[l] \in LinkRows
      BY DEF TypeOK, LinkRows, Least, Unissued
    <3>2. [link[l] EXCEPT !.purpose = "reset"] \in LinkRows
      BY <3>1, ColumnTypes
    <3>3. \A q \in LinkRows : [link EXCEPT ![l] = q] \in [Links -> LinkRows]
      BY DEF TypeOK, LinkRows
    <3> QED BY <2>1, <3>2, <3>3
  <2> QED BY <1>18, <1>20, <2>2 DEF Mint, Drop, TypeOK
<1>21. CASE Consume(w)
  <2>1. CASE Fail(w)
    BY <1>2, <2>1
  <2>2. CASE ~Fail(w)
    <3>1. [r EXCEPT !.pc = "list"] \in Requests
      BY <1>0, <1>21, RequestType DEF Consume, At, PCs
    <3>2. link' \in [Links -> LinkRows]
      <4>1. link' = [link EXCEPT ![r.link].consumed = TRUE, ![r.link].uses = @ + 1]
        BY <1>21, <2>2 DEF Consume
      <4>2. CASE r.link \in Links
        BY <4>1, <4>2 DEF TypeOK, LinkRows
      <4>3. CASE r.link \notin Links
        BY <4>1, <4>3 DEF TypeOK, LinkRows
      <4> QED BY <4>2, <4>3
    <3>3. user' \in [gen : Nat, active : BOOLEAN]
      BY <1>21, <2>2 DEF Consume, TypeOK
    <3> QED BY <1>18, <1>21, <2>2, <3>1, <3>2, <3>3 DEF Consume, Drop
  <2> QED BY <2>1, <2>2
<1>22. CASE Respond(w)
  <2>1. req' \in [Workers -> Requests \union {None}]
    BY <1>22, GotoType DEF Respond, Drop
  <2>2. r.pair # None => r.pair \in Pairs
    BY <1>0, <1>22 DEF Respond, At, Requests
  <2>3. jar' \in [Devices -> [acc : Nat \union {None}, ref : Tokens \union {None}]]
    BY <1>22, <2>2 DEF Respond, TypeOK, Pairs
  <2> QED BY <1>22, <2>1, <2>3 DEF Respond, TypeOK, stored, history
<1>23. CASE Die(w)
  <2>1. req' \in [Workers -> Requests \union {None}]
    BY <1>23, GotoType DEF Die, Drop
  <2>2. spent' \in [requests : Nat, faults : Nat, ageing : Nat]
    BY <1>23 DEF Die, TypeOK
  <2> QED BY <1>23, <2>1, <2>2 DEF Die, TypeOK, stored
<1> QED BY <1>5, <1>6, <1>7, <1>8, <1>9, <1>10, <1>11, <1>12, <1>13, <1>14, <1>15, <1>16,
            <1>17, <1>19, <1>20, <1>21, <1>22, <1>23 DEF Work

LEMMA TypeStep ==
  ASSUME TypeOK, [Next]_vars
  PROVE  TypeOK'
<1>1. CASE UNCHANGED vars
  BY <1>1 DEF TypeOK, vars, stored, history
<1>2. ASSUME NEW w \in Workers, Request(w) \/ Work(w) PROVE TypeOK'
  BY <1>2, RequestStepType, WorkStepType
<1>3. ASSUME NEW r \in Rows, GetsIdle(r) \/ Expires(r) PROVE TypeOK'
  <2>1. row[r] \in SessionRows
    BY <1>3 DEF GetsIdle, Expires, Live, TypeOK
  <2>2. row' \in [Rows -> SessionRows \union {None}]
    <3>1. \A q \in SessionRows : [row EXCEPT ![r] = q] \in [Rows -> SessionRows \union {None}]
      BY DEF TypeOK
    <3>2. /\ [row[r] EXCEPT !.idle = TRUE] \in SessionRows
          /\ [row[r] EXCEPT !.expired = TRUE] \in SessionRows
      BY <2>1, ColumnTypes
    <3>3. CASE GetsIdle(r)
      BY <3>1, <3>2, <3>3 DEF GetsIdle
    <3>4. CASE Expires(r)
      BY <3>1, <3>2, <3>4 DEF Expires
    <3> QED BY <1>3, <3>3, <3>4
  <2>3. spent' \in [requests : Nat, faults : Nat, ageing : Nat]
    BY <1>3 DEF GetsIdle, Expires, TypeOK
  <2>4. cut' \subseteq Devices /\ excused' \subseteq Devices
    BY <1>3 DEF GetsIdle, Expires, TypeOK, history, Holders
  <2> QED BY <1>3, <2>2, <2>3, <2>4 DEF GetsIdle, Expires, TypeOK
<1> QED BY <1>1, <1>2, <1>3 DEF Next

(* Every variable keeps its type.                                          *)
THEOREM SessionsTypeCorrect == Spec => []TypeOK
BY TypeInit, TypeStep, PTL DEF Spec

-----------------------------------------------------------------------------
(* Revocation is final, a link works once                                  *)

\* The row x is gone, new, or what it was: never less revoked, and with the token and
\* the time it had unless the token is a new one.
RowGoesOn(x) ==
  \/ row'[x] = None
  \/ row[x] = None /\ row'[x].jti \in FreeTokens
  \/ /\ row[x] # None /\ (row[x].revoked => row'[x].revoked)
     /\ \/ row'[x].jti \in FreeTokens
        \/ row'[x].jti = row[x].jti /\ (row[x].expired => row'[x].expired)

LEMMA RowStep ==
  ASSUME TypeOK, [Next]_vars, NEW x \in Rows
  PROVE  RowGoesOn(x)
<1>0. row[x] \in SessionRows \union {None} /\ row \in [Rows -> SessionRows \union {None}]
  BY DEF TypeOK
<1>1. CASE row' = row
  BY <1>1 DEF RowGoesOn
<1>2. ASSUME NEW r, NEW j \in Least(FreeTokens), row[r] # None, row' = Rotated(r, j)
      PROVE RowGoesOn(x)
  <2>1. CASE x = r
    <3>1. row'[x].jti = j /\ row'[x].revoked = row[x].revoked
      BY <1>0, <1>2, <2>1 DEF Rotated, SessionRows
    <3> QED BY <1>2, <2>1, <3>1 DEF RowGoesOn, Least
  <2>2. CASE x # r
    BY <1>0, <1>2, <2>2 DEF Rotated, RowGoesOn
  <2> QED BY <2>1, <2>2
<1>3. ASSUME NEW rs, \A r \in rs : row[r] # None, row' = Revoked(rs) PROVE RowGoesOn(x)
  <2>1. CASE x \in rs
    BY <1>0, <1>3, <2>1 DEF Revoked, SessionRows, RowGoesOn
  <2>2. CASE x \notin rs
    BY <1>3, <2>2 DEF Revoked, RowGoesOn
  <2> QED BY <2>1, <2>2
<1>4. ASSUME NEW w \in Workers, Work(w) PROVE RowGoesOn(x)
  <2>1. CASE Prune(w)
    BY <2>1 DEF Prune, RowGoesOn
  <2>2. CASE Create(w)
    <3>1. PICK r \in FreeRows, j \in FreeTokens :
            row' = [row EXCEPT ![r] =
                      [jti |-> j, revoked |-> FALSE, idle |-> FALSE, expired |-> FALSE]]
      BY <2>2 DEF Create, Least
    <3> QED BY <1>0, <3>1 DEF FreeRows, RowGoesOn
  <2>3. CASE Touch(w)
    <3>1. CASE row' = [row EXCEPT ![req[w].row].idle = FALSE] /\ row[req[w].row] # None
      <4>1. CASE x = req[w].row
        BY <1>0, <3>1, <4>1 DEF SessionRows, RowGoesOn
      <4>2. CASE x # req[w].row
        BY <1>0, <3>1, <4>2 DEF RowGoesOn
      <4> QED BY <4>1, <4>2
    <3> QED BY <1>1, <2>3, <3>1 DEF Touch, Fail, Step, stored
  <2>4. CASE Rotate(w)
    BY <1>1, <1>2, <2>4 DEF Rotate, Fail, Step, stored
  <2>5. CASE End(w)
    BY <2>5 DEF End, RowGoesOn
  <2>6. CASE WriteOthers(w)
    BY <1>1, <1>3, <2>6 DEF WriteOthers, SeenGone, Fail, Step, stored
  <2>7. CASE Reissue(w)
    BY <1>1, <1>2, <2>7 DEF Reissue, Fail, Step, stored
  <2>8. CASE RevokeAll(w)
    BY <1>1, <1>3, <2>8 DEF RevokeAll, SeenGone, Fail, Step, stored
  <2>9. CASE ReadRow(w) \/ ReadAccount(w) \/ List(w) \/ ReadOwn(w)
    BY <1>1, <2>9 DEF ReadRow, ReadAccount, List, ReadOwn, Fail, Step, stored
  <2>10. CASE Bump(w) \/ Void(w) \/ Mint(w) \/ Consume(w) \/ Respond(w) \/ Die(w)
    BY <1>1, <2>10 DEF Bump, Void, Mint, Consume, Respond, Die, Fail, Step, stored
  <2> QED BY <1>4, <2>1, <2>2, <2>3, <2>4, <2>5, <2>6, <2>7, <2>8, <2>9, <2>10 DEF Work
<1>5. ASSUME NEW w \in Workers, Request(w) PROVE row' = row
  BY <1>5 DEF Request, Login, Refresh, Activity, SwitchTenant, Logout, RevokeOthers,
              SendReset, Redeem, BeginAt, stored
<1>6. ASSUME NEW r \in Rows, GetsIdle(r) \/ Expires(r) PROVE RowGoesOn(x)
  <2>1. row[r] \in SessionRows /\ row[r] # None
    BY <1>6 DEF GetsIdle, Expires, Live, TypeOK
  <2>2. CASE row' = [row EXCEPT ![r].idle = TRUE]
    BY <1>0, <2>1, <2>2 DEF SessionRows, RowGoesOn
  <2>3. CASE row' = [row EXCEPT ![r].expired = TRUE]
    BY <1>0, <2>1, <2>3 DEF SessionRows, RowGoesOn
  <2> QED BY <1>6, <2>2, <2>3 DEF GetsIdle, Expires
<1>7. CASE UNCHANGED vars
  BY <1>1, <1>7 DEF vars, stored
<1> QED BY <1>1, <1>4, <1>5, <1>6, <1>7 DEF Next

(* No request brings back a session that was revoked, whatever it has read *)
(* before.                                                                 *)
THEOREM RevocationIsFinal == Spec => RevokedIsFinal
<1>1. TypeOK /\ [Next]_vars =>
        [\A r \in Rows :
           row[r] # None /\ row[r].revoked /\ row'[r] # None => row'[r].revoked]_vars
  BY RowStep DEF RowGoesOn
<1> QED BY <1>1, SessionsTypeCorrect, PTL DEF Spec, RevokedIsFinal

LEMMA LinkStep ==
  ASSUME TypeOK, [Next]_vars, NEW l \in Links, link'[l].uses > link[l].uses
  PROVE  ~link[l].consumed
<1>0. link[l] \in LinkRows /\ link \in [Links -> LinkRows]
  BY DEF TypeOK, LinkRows
<1>1. CASE link'[l].uses = link[l].uses
  BY <1>0, <1>1 DEF LinkRows
<1>2. ASSUME NEW w \in Workers, Work(w) PROVE ~link[l].consumed
  <2>1. CASE Void(w)
    BY <1>0, <1>1, <2>1 DEF Void, LinkRows
  <2>2. CASE Mint(w)
    BY <1>0, <1>1, <2>2 DEF Mint, LinkRows
  <2>3. CASE Consume(w)
    <3>1. CASE Fail(w)
      BY <1>1, <3>1 DEF Fail, Step, stored
    <3>2. CASE ~link[req[w].link].consumed
                 /\ link' = [link EXCEPT ![req[w].link].consumed = TRUE, ![req[w].link].uses = @ + 1]
      BY <1>0, <1>1, <3>2 DEF LinkRows
    <3> QED BY <2>3, <3>1, <3>2 DEF Consume
  <2>4. CASE link' = link
    BY <1>1, <2>4
  <2>5. CASE ReadRow(w) \/ ReadAccount(w) \/ List(w) \/ ReadOwn(w)
    BY <2>4, <2>5 DEF ReadRow, ReadAccount, List, ReadOwn, Fail, Step, stored
  <2>6. CASE Prune(w) \/ Create(w) \/ Touch(w) \/ Rotate(w) \/ End(w) \/ Bump(w)
    BY <2>4, <2>6 DEF Prune, Create, Touch, Rotate, End, Bump, Fail, Step, stored
  <2>7. CASE WriteOthers(w) \/ Reissue(w) \/ RevokeAll(w) \/ Respond(w) \/ Die(w)
    BY <2>4, <2>7 DEF WriteOthers, Reissue, RevokeAll, Respond, Die, Fail, Step, stored
  <2> QED BY <1>2, <2>1, <2>2, <2>3, <2>5, <2>6, <2>7 DEF Work
<1>3. ASSUME NEW w \in Workers, Request(w) PROVE link' = link
  BY <1>3 DEF Request, Login, Refresh, Activity, SwitchTenant, Logout, RevokeOthers,
              SendReset, Redeem, BeginAt, stored
<1>4. ASSUME NEW r \in Rows, GetsIdle(r) \/ Expires(r) PROVE link' = link
  BY <1>4 DEF GetsIdle, Expires
<1>5. CASE UNCHANGED vars
  BY <1>1, <1>5 DEF vars, stored
<1> QED BY <1>1, <1>2, <1>3, <1>4, <1>5 DEF Next

(* Only the first of all requests that looked a link up uses it, and none  *)
(* does once a newer link has replaced it.                                 *)
THEOREM LinksWorkOnce == Spec => LinkWorksOnce
<1>1. TypeOK /\ [Next]_vars =>
        [\A l \in Links : link'[l].uses > link[l].uses => ~link[l].consumed]_vars
  BY LinkStep
<1> QED BY <1>1, SessionsTypeCorrect, PTL DEF Spec, LinkWorksOnce

-----------------------------------------------------------------------------
(* A revoked device stays out: the inductive invariant                     *)

Pending(w) == req[w] # None

\* Nothing carries a generation that is still to come.
Ordered ==
  /\ \A d \in Devices : jar[d].acc # None => jar[d].acc <= user.gen
  /\ \A w \in Workers : Pending(w) =>
       /\ req[w].gen <= user.gen
       /\ req[w].pair # None => req[w].pair.acc <= user.gen

\* A refresh token is in one place: one browser, or one answer on its way.
OwnTokens ==
  /\ \A d, e \in Devices : d # e /\ jar[d].ref = jar[e].ref => jar[d].ref = None
  /\ \A w \in Workers : Pending(w) /\ req[w].pair # None =>
       /\ \A d \in Devices : jar[d].ref # req[w].pair.ref
       /\ \A v \in Workers \ {w} :
            Pending(v) /\ req[v].pair # None => req[v].pair.ref # req[w].pair.ref

\* The devices at rest ask for nothing and hold another token than the request came with.
Resting ==
  \A w \in Workers : Pending(w) =>
    \A d \in req[w].quiet :
      /\ ~Busy(d)
      /\ jar[d].ref = None \/ jar[d].ref # req[w].jti

\* How far a revocation has got with the devices at rest.
Staged ==
  \A w \in Workers : Pending(w) =>
    \A d \in req[w].quiet :
      /\ req[w].pc \in {"write", "revoke"} =>
           \A x \in RowOf(jar[d].ref) : Live(x) => x \in req[w].seen
      /\ req[w].pc \in {"own", "reissue"} => ~Serves(d)

\* A device that is out holds nothing good and asks for nothing that would become it.
Harmless(w) ==
  /\ req[w].pair = None
  /\ req[w].pc \in {"row", "list", "revoke", "end", "bump", "respond"}
  /\ req[w].pc = "row" => \A x \in RowOf(req[w].jti) : ~Live(x)
  /\ req[w].pc = "list" => req[w].op \notin {"others", "password"}

Out ==
  \A d \in cut :
    /\ jar[d].acc = None \/ jar[d].acc < user.gen
    /\ ~Serves(d)
    /\ \A w \in Workers : Pending(w) /\ req[w].dev = d => Harmless(w)

IInv == TypeOK /\ Ordered /\ OwnTokens /\ Resting /\ Staged /\ Out

-----------------------------------------------------------------------------
(* What a step of a request may change                                     *)

\* q is what becomes of the request r when it has gone on.
Follows(q, r) ==
  /\ q.dev = r.dev /\ q.quiet = r.quiet /\ q.jti = r.jti /\ q.op = r.op
  /\ q.gen \in {r.gen, user.gen}
  /\ q.pair = r.pair \/ (q.pair.ref \in FreeTokens /\ q.pair.acc \in {r.gen, user'.gen})
  /\ q.row = r.row \/ q.row \in RowOf(r.jti)

LEMMA FollowsWhen ==
  ASSUME NEW r \in Requests
  PROVE  /\ Follows(r, r)
         /\ \A pc : Follows([r EXCEPT !.pc = pc], r)
         /\ \A pc : Follows([r EXCEPT !.pc = pc, !.gen = user.gen], r)
         /\ \A pc : \A x \in RowOf(r.jti) : Follows([r EXCEPT !.pc = pc, !.row = x], r)
         /\ \A pc, xs : Follows([r EXCEPT !.pc = pc, !.seen = xs], r)
         /\ \A pc, g, j : j \in FreeTokens /\ g \in {r.gen, user'.gen} =>
              Follows([r EXCEPT !.pc = pc, !.pair = [acc |-> g, ref |-> j]], r)
BY DEF Requests, Follows

LEMMA GotoStep ==
  ASSUME TypeOK, NEW w \in Workers, NEW q, Goto(w, q)
  PROVE  req'[w] = q /\ \A v \in Workers \ {w} : req'[v] = req[v]
BY DEF TypeOK, Goto

LEMMA WorkStep ==
  ASSUME TypeOK, NEW w \in Workers, Work(w)
  PROVE  /\ req[w] \in Requests /\ req[w] # None
         /\ \A v \in Workers \ {w} : req'[v] = req[v]
         /\ req'[w] # None => Follows(req'[w], req[w])
         /\ user' = user \/ user' = Bumped \/ user'.gen = user.gen
<1> DEFINE r == req[w]
<1> DEFINE Goes(q) == Goto(w, q) /\ Follows(q, r)
<1> DEFINE Goal == /\ \A v \in Workers \ {w} : req'[v] = req[v]
                   /\ req'[w] # None => Follows(req'[w], r)
                   /\ user' = user \/ user' = Bumped \/ user'.gen = user.gen
<1>0. r # None /\ r \in Requests
  <2>1. r # None
    BY DEF Work, At, Prune, Create, ReadRow, ReadAccount, Touch, Rotate, End, Bump, List,
           WriteOthers, ReadOwn, Reissue, RevokeAll, Void, Mint, Consume, Respond, Die
  <2> QED BY <2>1, AtType
<1>1. ASSUME NEW q, Goes(q) PROVE /\ \A v \in Workers \ {w} : req'[v] = req[v]
                                  /\ Follows(req'[w], r)
  BY <1>1, GotoStep
<1>2. ASSUME Drop(w) PROVE /\ \A v \in Workers \ {w} : req'[v] = req[v]
                           /\ req'[w] = None
  BY <1>2, GotoStep DEF Drop
<1>3. Fail(w) => Goal
  BY <1>2 DEF Fail, Step, Drop, stored
<1> HIDE DEF Goes
<1> SUFFICES Goal
  BY <1>0
<1>4. CASE Prune(w)
  <2>1. Goes([r EXCEPT !.pc = "create"])
    BY <1>0, <1>4, FollowsWhen DEF Prune, Goes
  <2> QED BY <1>1, <1>4, <2>1 DEF Prune
<1>5. CASE Create(w)
  <2>1. \E j \in Least(FreeTokens) :
          Goto(w, [r EXCEPT !.pc = "respond", !.pair = [acc |-> r.gen, ref |-> j]])
    BY <1>5 DEF Create
  <2>2. \E j : Goes([r EXCEPT !.pc = "respond", !.pair = [acc |-> r.gen, ref |-> j]])
    BY <1>0, <2>1, FollowsWhen DEF Goes, Least
  <2> QED BY <1>1, <1>5, <2>2 DEF Create
<1>6. CASE ReadRow(w)
  <2>1. Fail(w) \/ Step(w, [r EXCEPT !.pc = "list"])
          \/ (\E x \in RowOf(r.jti) : Step(w, [r EXCEPT !.pc = "end", !.row = x]))
          \/ (\E x \in RowOf(r.jti) : Step(w, [r EXCEPT !.pc = AfterRow(r.op), !.row = x]))
    BY <1>6 DEF ReadRow
  <2>2. CASE Step(w, [r EXCEPT !.pc = "list"])
    BY <1>0, <1>1, <2>2, FollowsWhen DEF Goes, Step, stored
  <2>3. ASSUME NEW x \in RowOf(r.jti), Step(w, [r EXCEPT !.pc = "end", !.row = x]) PROVE Goal
    BY <1>0, <1>1, <2>3, FollowsWhen DEF Goes, Step, stored
  <2>4. ASSUME NEW x \in RowOf(r.jti), Step(w, [r EXCEPT !.pc = AfterRow(r.op), !.row = x])
        PROVE  Goal
    BY <1>0, <1>1, <2>4, FollowsWhen DEF Goes, Step, stored
  <2> QED BY <1>3, <2>1, <2>2, <2>3, <2>4
<1>7. CASE ReadAccount(w)
  <2>1. CASE Step(w, [r EXCEPT !.pc = "rotate", !.gen = user.gen])
    BY <1>0, <1>1, <2>1, FollowsWhen DEF Goes, Step, stored
  <2> QED BY <1>3, <1>7, <2>1 DEF ReadAccount
<1>8. CASE Touch(w)
  BY <1>2, <1>3, <1>8 DEF Touch
<1>9. CASE Rotate(w)
  <2>1. ASSUME NEW j \in Least(FreeTokens), UNCHANGED user,
               Goto(w, [r EXCEPT !.pc = "respond", !.pair = [acc |-> r.gen, ref |-> j]])
        PROVE  Goal
    <3>1. Goes([r EXCEPT !.pc = "respond", !.pair = [acc |-> r.gen, ref |-> j]])
      BY <1>0, <2>1, FollowsWhen DEF Goes, Least
    <3> QED BY <1>1, <2>1, <3>1
  <2> QED BY <1>3, <1>9, <2>1 DEF Rotate
<1>10. CASE End(w)
  <2>1. Goes([r EXCEPT !.pc = "bump"])
    BY <1>0, <1>10, FollowsWhen DEF End, Goes
  <2> QED BY <1>1, <1>10, <2>1 DEF End
<1>11. CASE Bump(w)
  <2>1. Drop(w) \/ Goes([r EXCEPT !.pc = "respond"])
    BY <1>0, <1>11, FollowsWhen DEF Bump, Goes
  <2> QED BY <1>1, <1>2, <1>11, <2>1 DEF Bump
<1>12. CASE List(w)
  <2>1. \E pc, xs : Step(w, [r EXCEPT !.pc = pc, !.seen = xs])
    BY <1>12 DEF List
  <2>2. \E q : Goes(q) /\ UNCHANGED user
    BY <1>0, <2>1, FollowsWhen DEF Goes, Step, stored
  <2> QED BY <1>1, <2>2
<1>13. CASE WriteOthers(w)
  <2>1. Fail(w) \/ (Goes([r EXCEPT !.pc = "own"]) /\ UNCHANGED user)
    BY <1>0, <1>13, FollowsWhen DEF WriteOthers, Goes
  <2> QED BY <1>1, <1>3, <2>1
<1>14. CASE ReadOwn(w)
  <2>1. Step(w, [r EXCEPT !.pc = "reissue"])
          \/ (\E x \in RowOf(r.jti) : Step(w, [r EXCEPT !.pc = "reissue", !.row = x]))
    BY <1>14 DEF ReadOwn
  <2>2. \E q : Goes(q) /\ UNCHANGED user
    BY <1>0, <2>1, FollowsWhen DEF Goes, Step, stored
  <2> QED BY <1>1, <2>2
<1>15. CASE Reissue(w)
  <2>1. CASE Goto(w, [r EXCEPT !.pc = "respond"]) /\ user' = Bumped
    BY <1>0, <1>1, <2>1, FollowsWhen DEF Goes
  <2>2. ASSUME NEW j \in Least(FreeTokens), user' = Bumped,
               Goto(w, [r EXCEPT !.pc = "respond", !.pair = [acc |-> Bumped.gen, ref |-> j]])
        PROVE  Goal
    <3>1. Goes([r EXCEPT !.pc = "respond", !.pair = [acc |-> Bumped.gen, ref |-> j]])
      BY <1>0, <2>2, FollowsWhen DEF Goes, Least
    <3> QED BY <1>1, <2>2, <3>1
  <2> QED BY <1>3, <1>15, <2>1, <2>2 DEF Reissue
<1>16. CASE RevokeAll(w)
  BY <1>2, <1>3, <1>16 DEF RevokeAll
<1>17. CASE Void(w)
  <2>1. Goes([r EXCEPT !.pc = "mint"])
    BY <1>0, <1>17, FollowsWhen DEF Void, Goes
  <2> QED BY <1>1, <1>17, <2>1 DEF Void
<1>18. CASE Mint(w)
  BY <1>2, <1>18 DEF Mint
<1>19. CASE Consume(w)
  <2>1. CASE user' = [user EXCEPT !.active = @ \/ r.op = "invite"]
    <3>1. user'.gen = user.gen
      BY <2>1 DEF TypeOK
    <3>2. Fail(w) \/ Drop(w) \/ Goes([r EXCEPT !.pc = "list"])
      BY <1>0, <1>19, FollowsWhen DEF Consume, Goes
    <3> QED BY <1>1, <1>2, <1>3, <3>1, <3>2
  <2> QED BY <1>3, <1>19, <2>1 DEF Consume
<1>20. CASE Respond(w)
  BY <1>2, <1>20 DEF Respond, stored
<1>21. CASE Die(w)
  BY <1>2, <1>21 DEF Die, stored
<1> QED BY <1>0, <1>4, <1>5, <1>6, <1>7, <1>8, <1>9, <1>10, <1>11, <1>12, <1>13, <1>14, <1>15,
            <1>16, <1>17, <1>18, <1>19, <1>20, <1>21 DEF Work

(* What a step of a request may write to the cookies: those it answers with. *)
LEMMA JarStep ==
  ASSUME TypeOK, NEW w \in Workers, Work(w)
  PROVE  \/ jar' = jar
         \/ /\ req[w].pc = "respond" /\ req' = [req EXCEPT ![w] = None]
            /\ UNCHANGED <<user, row, cut>>
            /\ \/ jar' = [jar EXCEPT ![req[w].dev] = [acc |-> None, ref |-> None]]
               \/ req[w].pair # None /\ jar' = [jar EXCEPT ![req[w].dev] = req[w].pair]
<1>1. CASE Respond(w)
  BY <1>1 DEF Respond, At, Drop, Goto, stored, history
<1>2. CASE Prune(w) \/ Create(w) \/ ReadRow(w) \/ ReadAccount(w) \/ Touch(w) \/ Rotate(w)
  BY <1>2 DEF Prune, Create, ReadRow, ReadAccount, Touch, Rotate, Fail, Step
<1>3. CASE End(w) \/ Bump(w) \/ List(w) \/ WriteOthers(w) \/ ReadOwn(w) \/ Reissue(w)
  BY <1>3 DEF End, Bump, List, WriteOthers, ReadOwn, Reissue, Fail, Step
<1>4. CASE RevokeAll(w) \/ Void(w) \/ Mint(w) \/ Consume(w) \/ Die(w)
  BY <1>4 DEF RevokeAll, Void, Mint, Consume, Die, Fail, Step
<1> QED BY <1>1, <1>2, <1>3, <1>4 DEF Work

(* Where a request that goes on comes from, as far as revocation cares.    *)
LEMMA PcWhen ==
  ASSUME NEW r \in Requests, NEW pc
  PROVE  /\ [r EXCEPT !.pc = pc].pc = pc
         /\ \A g : [r EXCEPT !.pc = pc, !.gen = g].pc = pc
         /\ \A x : [r EXCEPT !.pc = pc, !.row = x].pc = pc
         /\ \A xs : [r EXCEPT !.pc = pc, !.seen = xs].pc = pc
         /\ \A p : [r EXCEPT !.pc = pc, !.pair = p].pc = pc
BY DEF Requests

Elsewhere == {"create", "account", "touch", "rotate", "end", "bump", "list", "void", "mint",
              "respond"}

LEMMA PcStep ==
  ASSUME TypeOK, NEW w \in Workers, Work(w), req'[w] # None
  PROVE  \/ req'[w].pc \in Elsewhere
         \/ List(w) /\ req'[w].pc \in {"write", "revoke"}
         \/ WriteOthers(w) /\ req'[w].pc = "own"
         \/ ReadOwn(w) /\ req'[w].pc = "reissue"
<1> DEFINE r == req[w]
<1> DEFINE Lands(q) == Goto(w, q) /\ q.pc \in Elsewhere
<1> DEFINE Goal == req'[w].pc \in Elsewhere
<1>0. r \in Requests
  BY WorkStep
<1>1. ASSUME NEW q, Lands(q) PROVE Goal
  BY <1>1, GotoStep
<1>2. ~Drop(w)
  BY GotoStep DEF Drop
<1>3. ~Fail(w)
  BY <1>2 DEF Fail, Step, Drop
<1> HIDE DEF Lands
<1>4. CASE Prune(w)
  <2>1. Lands([r EXCEPT !.pc = "create"])
    BY <1>0, <1>4, PcWhen DEF Prune, Lands, Elsewhere
  <2> QED BY <1>1, <2>1
<1>5. CASE Create(w)
  <2>1. PICK p : Goto(w, [r EXCEPT !.pc = "respond", !.pair = p])
    BY <1>5 DEF Create
  <2>2. Lands([r EXCEPT !.pc = "respond", !.pair = p])
    BY <1>0, <2>1, PcWhen DEF Lands, Elsewhere
  <2> QED BY <1>1, <2>2
<1>6. CASE ReadRow(w)
  <2>1. \/ Goto(w, [r EXCEPT !.pc = "list"])
        \/ \E x : Goto(w, [r EXCEPT !.pc = "end", !.row = x])
        \/ \E x : Goto(w, [r EXCEPT !.pc = AfterRow(r.op), !.row = x])
    BY <1>3, <1>6 DEF ReadRow, Step
  <2>2. AfterRow(r.op) \in Elsewhere
    BY DEF AfterRow, Elsewhere
  <2>3. CASE Goto(w, [r EXCEPT !.pc = "list"])
    <3>1. Lands([r EXCEPT !.pc = "list"])
      BY <1>0, <2>3, PcWhen DEF Lands, Elsewhere
    <3> QED BY <1>1, <3>1
  <2>4. ASSUME NEW pc \in Elsewhere, NEW x, Goto(w, [r EXCEPT !.pc = pc, !.row = x]) PROVE Goal
    <3>1. Lands([r EXCEPT !.pc = pc, !.row = x])
      BY <1>0, <2>4, PcWhen DEF Lands
    <3> QED BY <1>1, <3>1
  <2> QED BY <2>1, <2>2, <2>3, <2>4 DEF Elsewhere
<1>7. CASE ReadAccount(w)
  <2>1. Lands([r EXCEPT !.pc = "rotate", !.gen = user.gen])
    BY <1>0, <1>3, <1>7, PcWhen DEF ReadAccount, Step, Lands, Elsewhere
  <2> QED BY <1>1, <2>1
<1>8. CASE Rotate(w)
  <2>1. PICK p : Goto(w, [r EXCEPT !.pc = "respond", !.pair = p])
    BY <1>3, <1>8 DEF Rotate
  <2>2. Lands([r EXCEPT !.pc = "respond", !.pair = p])
    BY <1>0, <2>1, PcWhen DEF Lands, Elsewhere
  <2> QED BY <1>1, <2>2
<1>9. CASE End(w) \/ Bump(w)
  <2>1. Lands([r EXCEPT !.pc = "bump"]) \/ Lands([r EXCEPT !.pc = "respond"])
    BY <1>0, <1>2, <1>9, PcWhen DEF End, Bump, Lands, Elsewhere
  <2> QED BY <1>1, <2>1
<1>10. CASE Reissue(w)
  <2>1. \/ Goto(w, [r EXCEPT !.pc = "respond"])
        \/ \E p : Goto(w, [r EXCEPT !.pc = "respond", !.pair = p])
    BY <1>3, <1>10 DEF Reissue
  <2>2. CASE Goto(w, [r EXCEPT !.pc = "respond"])
    <3>1. Lands([r EXCEPT !.pc = "respond"])
      BY <1>0, <2>2, PcWhen DEF Lands, Elsewhere
    <3> QED BY <1>1, <3>1
  <2>3. ASSUME NEW p, Goto(w, [r EXCEPT !.pc = "respond", !.pair = p]) PROVE Goal
    <3>1. Lands([r EXCEPT !.pc = "respond", !.pair = p])
      BY <1>0, <2>3, PcWhen DEF Lands, Elsewhere
    <3> QED BY <1>1, <3>1
  <2> QED BY <2>1, <2>2, <2>3
<1>11. CASE Void(w) \/ Consume(w)
  <2>1. Lands([r EXCEPT !.pc = "mint"]) \/ Lands([r EXCEPT !.pc = "list"])
    BY <1>0, <1>2, <1>3, <1>11, PcWhen DEF Void, Consume, Lands, Elsewhere
  <2> QED BY <1>1, <2>1
<1>12. CASE Touch(w) \/ RevokeAll(w) \/ Mint(w) \/ Respond(w) \/ Die(w)
  BY <1>2, <1>3, <1>12 DEF Touch, RevokeAll, Mint, Respond, Die
<1>13. CASE List(w)
  <2>1. \E pc \in {"write", "revoke"} : \E xs : req'[w] = [r EXCEPT !.pc = pc, !.seen = xs]
    BY <1>13, GotoStep DEF List, Step
  <2>2. req'[w].pc \in {"write", "revoke"}
    BY <1>0, <2>1, PcWhen
  <2> QED BY <1>13, <2>2
<1>14. CASE WriteOthers(w)
  <2>1. req'[w] = [r EXCEPT !.pc = "own"]
    BY <1>3, <1>14, GotoStep DEF WriteOthers
  <2> QED BY <1>0, <1>14, <2>1, PcWhen
<1>15. CASE ReadOwn(w)
  <2>1. CASE req'[w] = [r EXCEPT !.pc = "reissue"]
    BY <1>0, <1>15, <2>1, PcWhen
  <2>2. ASSUME NEW x, req'[w] = [r EXCEPT !.pc = "reissue", !.row = x]
        PROVE  req'[w].pc = "reissue"
    BY <1>0, <2>2, PcWhen
  <2> QED BY <1>15, <2>1, <2>2, GotoStep DEF ReadOwn, Step
<1> QED BY <1>4, <1>5, <1>6, <1>7, <1>8, <1>9, <1>10, <1>11, <1>12, <1>13, <1>14, <1>15 DEF Work

(* A token that somebody holds does not become good for a session: new     *)
(* tokens are nobody's, and no row gets back what it lost.                 *)
Held(j) ==
  \/ \E d \in Devices : jar[d].ref = j
  \/ \E w \in Workers : Pending(w) /\ req[w].jti = j

LEMMA NoGain ==
  ASSUME TypeOK, TypeOK', [Next]_vars, NEW j, Held(j), NEW x \in RowOf(j)', Live(x)'
  PROVE  x \in RowOf(j) /\ Live(x)
<1>1. x \in Rows /\ row'[x] # None /\ row'[x].jti = j /\ ~row'[x].revoked /\ ~row'[x].expired
  BY DEF RowOf, Live
<1>2. j \notin FreeTokens
  BY DEF Held, FreeTokens, Pending
<1>3. row[x] # None => row[x] \in SessionRows
  BY <1>1 DEF TypeOK
<1> QED BY <1>1, <1>2, <1>3, RowStep DEF RowGoesOn, RowOf, Live, SessionRows

-----------------------------------------------------------------------------
(* What the beginning of a request changes                                 *)

\* q is what the request r of another worker becomes when one begins on device d.
Narrowed(q, r, d) ==
  /\ q.op = r.op /\ q.dev = r.dev /\ q.pc = r.pc /\ q.gen = r.gen /\ q.seen = r.seen
  /\ q.row = r.row
  /\ q.jti = r.jti /\ q.pair = r.pair /\ q.quiet = r.quiet \ {d}

\* q is a request that begins: it has read nothing but the generation, and whoever
\* could end up with a good token has shown one or is not held to be out.
Begun(q) ==
  /\ q.pair = None /\ q.gen \in {0, user.gen}
  /\ q.jti = IF q.dev = None THEN None ELSE jar[q.dev].ref
  /\ \/ q.pc \in {"row", "end"}
     \/ q.pc \in {"prune", "create"} /\ q.dev \notin cut'
     \/ q.pc = "list" /\ Accepts(jar[q.dev].acc)
     \/ q.pc \in {"void", "consume"} /\ q.dev = None

\* Nothing but a logout begins at the end, and a device is only held to keep its session
\* when this is its one request, which shows the cookies it has or asks for new ones.
Excusing(q) ==
  /\ q \in Requests /\ q.row = None
  /\ \A d \in Devices \ excused' :
       IF d # q.dev THEN d \notin excused
       ELSE /\ ~Busy(d) /\ q.op # "logout"
            /\ \/ q.pc \in {"prune", "create"}
               \/ q.pc = "row" /\ d \notin excused /\ jar[d].ref # None
               \/ /\ q.pc = "list" /\ d \notin excused /\ jar[d].acc # None
                  /\ q.op \in {"others", "password"}

LEMMA BeginShape ==
  ASSUME TypeOK, NEW w \in Workers, NEW r \in Requests, Begin(w, r)
  PROVE  /\ req'[w] = [r EXCEPT !.quiet = {d \in Devices : ~Busy(d)} \ {r.dev}]
         /\ \A v \in Workers \ {w} :
              Pending(v)' => Pending(v) /\ Narrowed(req'[v], req[v], r.dev)
<1>1. req'[w] = [r EXCEPT !.quiet = {d \in Devices : ~Busy(d)} \ {r.dev}]
  BY DEF Begin
<1>2. ASSUME NEW v \in Workers \ {w}, Pending(v)'
      PROVE  Pending(v) /\ Narrowed(req'[v], req[v], r.dev)
  <2>1. req[v] # None /\ req'[v] = [req[v] EXCEPT !.quiet = @ \ {r.dev}]
    BY <1>2 DEF Begin, Pending
  <2>2. req[v] \in Requests
    BY <2>1, AtType
  <2> QED BY <2>1, <2>2 DEF Pending, Narrowed, Requests
<1> QED BY <1>1, <1>2

LEMMA FreshBegun ==
  ASSUME TypeOK, NEW d \in Devices \union {None}, NEW op \in Ops
  PROVE  /\ Fresh(op, d) \in Requests
         /\ Fresh(op, d).pair = None /\ Fresh(op, d).gen = 0 /\ Fresh(op, d).dev = d
         /\ Fresh(op, d).pc = "row"
         /\ Fresh(op, d).jti = IF d = None THEN None ELSE jar[d].ref
BY FreshType DEF Fresh

LEMMA RequestStep ==
  ASSUME TypeOK, NEW w \in Workers, Request(w)
  PROVE  /\ Begun(req'[w])
         /\ req'[w].quiet = {d \in Devices : ~Busy(d)} \ {req'[w].dev}
         /\ \A v \in Workers \ {w} :
              Pending(v)' => Pending(v) /\ Narrowed(req'[v], req[v], req'[w].dev)
         /\ UNCHANGED <<user, row, jar>> /\ cut' \subseteq cut
<1> DEFINE Goal == /\ Begun(req'[w])
                   /\ req'[w].quiet = {d \in Devices : ~Busy(d)} \ {req'[w].dev}
                   /\ \A v \in Workers \ {w} :
                        Pending(v)' => Pending(v) /\ Narrowed(req'[v], req[v], req'[w].dev)
<1>1. ASSUME NEW r \in Requests, Begin(w, r), Begun(r) PROVE Goal
  <2> DEFINE q == [r EXCEPT !.quiet = {d \in Devices : ~Busy(d)} \ {r.dev}]
  <2>1. /\ q.pair = r.pair /\ q.gen = r.gen /\ q.jti = r.jti /\ q.dev = r.dev /\ q.pc = r.pc
        /\ q.quiet = {d \in Devices : ~Busy(d)} \ {r.dev}
    BY DEF Requests
  <2>2. req'[w] = q
    BY <1>1, BeginShape
  <2> HIDE DEF q
  <2>3. Begun(q)
    BY <1>1, <2>1 DEF Begun
  <2> QED BY <1>1, <2>1, <2>2, <2>3, BeginShape
<1>2. UNCHANGED <<user, row, jar>> /\ cut' \subseteq cut
  BY DEF Request, Login, Refresh, Activity, SwitchTenant, Logout, RevokeOthers, SendReset,
         Redeem, BeginAt, stored
<1>3. user.gen \in Nat /\ \A l \in Links : link[l].purpose \in Ops
  BY DEF TypeOK, Ops
<1>4. ASSUME NEW d \in Devices PROVE d \in Devices \union {None} /\ d # None
  BY SessionsAssumption, <1>4
<1> HIDE DEF Goal
<1>5. ASSUME NEW d \in Devices, Login(w, d) PROVE Goal
  <2> DEFINE f == Fresh("login", d)
  <2>1. PICK pc \in {"prune", "create"} : Begin(w, [f EXCEPT !.pc = pc, !.gen = user.gen])
    BY <1>5 DEF Login
  <2> DEFINE r == [f EXCEPT !.pc = pc, !.gen = user.gen]
  <2>2. f \in Requests /\ f.pair = None /\ f.dev = d /\ f.jti = jar[d].ref
    BY <1>4, FreshBegun DEF Ops
  <2>3. r \in Requests
    BY <1>3, <2>2, RequestType DEF PCs
  <2>4. r.pair = None /\ r.dev = d /\ r.jti = jar[d].ref /\ r.gen = user.gen /\ r.pc = pc
    BY <2>2 DEF Requests
  <2>5. d \notin cut'
    BY <1>5 DEF Login
  <2> HIDE DEF r, f
  <2>6. Begun(r)
    BY <1>4, <2>4, <2>5 DEF Begun
  <2> QED BY <1>1, <2>1, <2>3, <2>6 DEF r
<1>6. ASSUME NEW d \in Devices, NEW op \in {"refresh", "activity"}, Begin(w, Fresh(op, d))
      PROVE  Goal
  <2>1. Begun(Fresh(op, d)) /\ Fresh(op, d) \in Requests
    BY <1>4, FreshBegun DEF Ops, Begun
  <2> QED BY <1>1, <1>6, <2>1
<1>7. ASSUME NEW d \in Devices, SwitchTenant(w, d) PROVE Goal
  <2> DEFINE f == Fresh("switch", d)
  <2> DEFINE r == [f EXCEPT !.gen = user.gen]
  <2>1. f \in Requests /\ f.pair = None /\ f.dev = d /\ f.jti = jar[d].ref /\ f.pc = "row"
    BY <1>4, FreshBegun DEF Ops
  <2>2. /\ r \in Requests
        /\ r.pair = None /\ r.dev = d /\ r.jti = jar[d].ref /\ r.gen = user.gen /\ r.pc = "row"
    BY <1>3, <2>1 DEF Requests
  <2>3. Begin(w, r)
    BY <1>7 DEF SwitchTenant, BeginAt
  <2> HIDE DEF r, f
  <2>4. Begun(r)
    BY <1>4, <2>2 DEF Begun
  <2> QED BY <1>1, <2>2, <2>3, <2>4
<1>8. ASSUME NEW d \in Devices \union {None}, NEW op \in Ops, NEW pc \in PCs,
             Begin(w, [Fresh(op, d) EXCEPT !.pc = pc]),
             \/ d # None /\ pc = "end"
             \/ d # None /\ pc = "list" /\ Accepts(jar[d].acc)
             \/ d = None /\ pc = "void"
      PROVE  Goal
  <2> DEFINE f == Fresh(op, d)
  <2> DEFINE r == [f EXCEPT !.pc = pc]
  <2>1. /\ f \in Requests /\ f.pair = None /\ f.gen = 0 /\ f.dev = d
        /\ f.jti = IF d = None THEN None ELSE jar[d].ref
    BY FreshBegun
  <2>2. /\ r \in Requests /\ r.pair = None /\ r.dev = d /\ r.gen = 0 /\ r.pc = pc
        /\ r.jti = f.jti
    BY <2>1 DEF Requests
  <2> HIDE DEF r, f
  <2>3. Begun(r)
    BY <1>8, <2>1, <2>2 DEF Begun
  <2>4. Begin(w, r)
    BY <1>8 DEF r, f
  <2> QED BY <1>1, <2>2, <2>3, <2>4
<1>9. ASSUME NEW l \in Links, Redeem(w, l) PROVE Goal
  <2> DEFINE f == Fresh(link[l].purpose, None)
  <2> DEFINE r == [f EXCEPT !.pc = "consume", !.link = l]
  <2>1. f \in Requests /\ f.pair = None /\ f.gen = 0 /\ f.dev = None /\ f.jti = None
    BY <1>3, FreshBegun
  <2>2. /\ r \in Requests /\ r.pair = None /\ r.dev = None /\ r.gen = 0 /\ r.pc = "consume"
        /\ r.jti = None
    BY <2>1 DEF Requests, PCs
  <2>3. Begin(w, r)
    BY <1>9 DEF Redeem, BeginAt
  <2> HIDE DEF r, f
  <2>4. Begun(r)
    BY <2>2 DEF Begun
  <2> QED BY <1>1, <2>2, <2>3, <2>4
<1>10. ASSUME NEW d \in Devices, Refresh(w, d) \/ Activity(w, d) PROVE Goal
  BY <1>6, <1>10 DEF Refresh, Activity, BeginAt
<1>11. ASSUME NEW d \in Devices, Logout(w, d) PROVE Goal
  <2>1. Begin(w, [Fresh("logout", d) EXCEPT !.pc = "end"])
    BY <1>11 DEF Logout
  <2>2. "logout" \in Ops /\ "end" \in PCs
    BY DEF Ops, PCs
  <2> QED BY <1>4, <1>8, <2>1, <2>2
<1>12. ASSUME NEW d \in Devices, RevokeOthers(w, d) PROVE Goal
  <2>1. PICK op \in {"others", "password"} : Begin(w, [Fresh(op, d) EXCEPT !.pc = "list"])
    BY <1>12 DEF RevokeOthers, BeginAt
  <2>2. op \in Ops /\ "list" \in PCs /\ Accepts(jar[d].acc)
    BY <1>12 DEF Ops, PCs, RevokeOthers
  <2> QED BY <1>4, <1>8, <2>1, <2>2
<1>13. ASSUME SendReset(w) PROVE Goal
  <2>1. Begin(w, [Fresh("issue", None) EXCEPT !.pc = "void"])
    BY <1>13 DEF SendReset, BeginAt
  <2>2. "issue" \in Ops /\ "void" \in PCs
    BY DEF Ops, PCs
  <2> QED BY <1>8, <2>1, <2>2
<1>14. Goal
  BY <1>5, <1>7, <1>9, <1>10, <1>11, <1>12, <1>13 DEF Request
<1> QED BY <1>2, <1>14 DEF Goal

(* A worker begins when it has nothing to do, and takes no request from another. *)
LEMMA BeginSpares ==
  ASSUME TypeOK, NEW w \in Workers, Request(w)
  PROVE  /\ ~Pending(w)
         /\ \A v \in Workers : Pending(v) => Pending(v)' /\ req'[v].dev = req[v].dev
<1>1. PICK r : Begin(w, r)
  BY DEF Request, Login, Refresh, Activity, SwitchTenant, Logout, RevokeOthers, SendReset,
         Redeem, BeginAt
<1>2. ~Pending(w)
  BY <1>1 DEF Begin, Pending
<1>3. ASSUME NEW v \in Workers, Pending(v) PROVE Pending(v)' /\ req'[v].dev = req[v].dev
  <2>1. req[v] \in Requests /\ req'[v] = [req[v] EXCEPT !.quiet = @ \ {r.dev}]
    BY <1>1, <1>2, <1>3, AtType DEF Begin, Pending
  <2>2. req'[v] \in Requests /\ req'[v].dev = req[v].dev
    BY <2>1 DEF Requests
  <2> QED BY <2>2, NoneAssumption DEF Pending
<1> QED BY <1>2, <1>3

(* A step is a request that begins, one that goes on, or nothing that matters *)
(* to accounts, cookies and requests.                                         *)
LEMMA StepKinds ==
  ASSUME [Next]_vars
  PROVE  \/ \E w \in Workers : Request(w)
         \/ \E w \in Workers : Work(w)
         \/ UNCHANGED <<user, jar, req, cut>>
BY DEF Next, vars, stored, history, GetsIdle, Expires

-----------------------------------------------------------------------------
(* Each part of the invariant is kept                                      *)

LEMMA Generations ==
  ASSUME TypeOK, NEW w \in Workers, Work(w)
  PROVE  user.gen \in Nat /\ user'.gen \in Nat /\ user.gen <= user'.gen
<1>1. user.gen \in Nat /\ (user' = Bumped => user'.gen = user.gen + 1)
  BY DEF TypeOK, Bumped
<1> QED BY <1>1, WorkStep

LEMMA OrderedStep ==
  ASSUME TypeOK, TypeOK', Ordered, [Next]_vars
  PROVE  Ordered'
<1>0. /\ user.gen \in Nat
      /\ \A d \in Devices : jar[d].acc # None => jar[d].acc \in Nat
      /\ \A w \in Workers : Pending(w) =>
           req[w].gen \in Nat /\ (req[w].pair # None => req[w].pair.acc \in Nat)
  BY DEF TypeOK, Pending, Requests, Pairs
<1>1. ASSUME NEW w \in Workers, Request(w) PROVE Ordered'
  <2>1. ASSUME NEW v \in Workers, Pending(v)'
        PROVE  req'[v].gen <= user.gen /\ (req'[v].pair # None => req'[v].pair.acc <= user.gen)
    <3>1. CASE v = w
      BY <1>0, <1>1, <3>1, RequestStep DEF Begun
    <3>2. CASE v # w
      BY <1>1, <2>1, <3>2, RequestStep DEF Narrowed, Ordered
    <3> QED BY <3>1, <3>2
  <2> QED BY <1>1, <2>1, RequestStep DEF Ordered
<1>2. ASSUME NEW w \in Workers, Work(w) PROVE Ordered'
  <2>1. ASSUME NEW v \in Workers, Pending(v)'
        PROVE  /\ req'[v].gen <= user'.gen
               /\ req'[v].pair # None => req'[v].pair.acc <= user'.gen
    <3>1. CASE v = w
      <4>1. Follows(req'[w], req[w]) /\ Pending(w)
        BY <1>2, <2>1, <3>1, WorkStep DEF Pending
      <4>2. req[w].gen <= user.gen /\ (req[w].pair # None => req[w].pair.acc <= user.gen)
        BY <4>1 DEF Ordered
      <4>3. req'[w].gen <= user'.gen
        BY <1>0, <1>2, <4>1, <4>2, Generations DEF Follows
      <4>4. ASSUME req'[w].pair # None PROVE req'[w].pair.acc <= user'.gen
        BY <1>0, <1>2, <4>1, <4>2, <4>4, Generations DEF Follows
      <4> QED BY <3>1, <4>3, <4>4
    <3>2. CASE v # w
      <4>1. req'[v] = req[v] /\ Pending(v)
        BY <1>2, <2>1, <3>2, WorkStep DEF Pending
      <4> QED BY <1>0, <1>2, <4>1, Generations DEF Ordered
    <3> QED BY <3>1, <3>2
  <2>2. ASSUME NEW d \in Devices, jar'[d].acc # None PROVE jar'[d].acc <= user'.gen
    <3>1. CASE jar'[d] = jar[d]
      BY <1>0, <1>2, <2>2, <3>1, Generations DEF Ordered
    <3>2. CASE jar'[d] # jar[d]
      <4>1. Pending(w) /\ req[w].pair # None /\ jar'[d] = req[w].pair
        BY <1>2, <2>2, <3>2, JarStep, WorkStep DEF TypeOK, Pending
      <4> QED BY <1>0, <1>2, <4>1, Generations DEF Ordered
    <3> QED BY <3>1, <3>2
  <2> QED BY <2>1, <2>2 DEF Ordered
<1>3. CASE UNCHANGED <<user, jar, req, cut>>
  BY <1>3 DEF Ordered, Pending
<1> QED BY <1>1, <1>2, <1>3, StepKinds

LEMMA OwnTokensStep ==
  ASSUME TypeOK, TypeOK', OwnTokens, [Next]_vars
  PROVE  OwnTokens'
<1>1. ASSUME NEW w \in Workers, Request(w) PROVE OwnTokens'
  <2>1. ASSUME NEW v \in Workers, Pending(v)', req'[v].pair # None
        PROVE  v # w /\ Pending(v) /\ req'[v].pair = req[v].pair
    BY <1>1, <2>1, RequestStep DEF Begun, Narrowed
  <2> QED BY <1>1, <2>1, RequestStep DEF OwnTokens
<1>2. ASSUME NEW w \in Workers, Work(w) PROVE OwnTokens'
  <2>1. ASSUME NEW v \in Workers \ {w}
        PROVE  req'[v] = req[v] /\ (Pending(v)' <=> Pending(v))
    BY <1>2, WorkStep DEF Pending
  <2>2. CASE jar' = jar
    <3>1. ASSUME Pending(w)', req'[w].pair # None
          PROVE  /\ \A d \in Devices : jar'[d].ref # req'[w].pair.ref
                 /\ \A v \in Workers \ {w} :
                      Pending(v)' /\ req'[v].pair # None => req'[v].pair.ref # req'[w].pair.ref
      <4>1. Follows(req'[w], req[w]) /\ Pending(w)
        BY <1>2, <3>1, WorkStep DEF Pending
      <4>2. CASE req'[w].pair = req[w].pair
        BY <2>1, <2>2, <3>1, <4>1, <4>2 DEF OwnTokens
      <4>3. CASE req'[w].pair.ref \in FreeTokens
        BY <2>1, <2>2, <4>3 DEF FreeTokens, Pending
      <4> QED BY <4>1, <4>2, <4>3 DEF Follows
    <3> QED BY <2>1, <2>2, <3>1 DEF OwnTokens
  <2>3. CASE jar' # jar
    <3>1. /\ ~Pending(w)' /\ Pending(w)
          /\ \/ jar' = [jar EXCEPT ![req[w].dev] = [acc |-> None, ref |-> None]]
             \/ req[w].pair # None /\ jar' = [jar EXCEPT ![req[w].dev] = req[w].pair]
      BY <1>2, <2>3, JarStep, WorkStep DEF TypeOK, Pending
    <3>2. ASSUME NEW d \in Devices
          PROVE  \/ jar'[d].ref = jar[d].ref \/ jar'[d].ref = None
                 \/ d = req[w].dev /\ req[w].pair # None /\ jar'[d].ref = req[w].pair.ref
      BY <3>1 DEF TypeOK
    <3>3. \A d, e \in Devices : d # e /\ jar'[d].ref = jar'[e].ref => jar'[d].ref = None
      BY <3>1, <3>2 DEF OwnTokens
    <3>4. ASSUME NEW v \in Workers, Pending(v)', req'[v].pair # None
          PROVE  /\ \A d \in Devices : jar'[d].ref # req'[v].pair.ref
                 /\ \A u \in Workers \ {v} :
                      Pending(u)' /\ req'[u].pair # None => req'[u].pair.ref # req'[v].pair.ref
      <4>1. v # w /\ Pending(v) /\ req'[v] = req[v] /\ req[v].pair.ref \in Tokens
        BY <2>1, <3>1, <3>4, AtType DEF Pending, Requests, Pairs
      <4>2. req[v].pair.ref # None
        BY <4>1, SessionsAssumption
      <4> QED BY <2>1, <3>1, <3>2, <3>4, <4>1, <4>2 DEF OwnTokens
    <3> QED BY <3>3, <3>4 DEF OwnTokens
  <2> QED BY <2>2, <2>3
<1>3. CASE UNCHANGED <<user, jar, req, cut>>
  BY <1>3 DEF OwnTokens, Pending
<1> QED BY <1>1, <1>2, <1>3, StepKinds

(* A step of a request leaves alone a device that has no request.          *)
LEMMA AtRest ==
  ASSUME TypeOK, NEW w \in Workers, Work(w), NEW d \in Devices, ~Busy(d)
  PROVE  jar'[d] = jar[d] /\ ~Busy(d)'
<1>1. req[w] # None /\ req[w].dev # d
  BY WorkStep DEF Busy
<1>2. jar'[d] = jar[d]
  BY <1>1, JarStep DEF TypeOK
<1>3. ASSUME NEW v \in Workers, req'[v] # None PROVE req'[v].dev # d
  <2>1. CASE v = w
    BY <1>1, <1>3, <2>1, WorkStep DEF Follows
  <2>2. CASE v # w
    BY <1>3, <2>2, WorkStep DEF Busy
  <2> QED BY <2>1, <2>2
<1> QED BY <1>2, <1>3 DEF Busy

LEMMA RestingStep ==
  ASSUME TypeOK, TypeOK', OwnTokens, Resting, [Next]_vars
  PROVE  Resting'
<1>1. ASSUME NEW w \in Workers, Request(w) PROVE Resting'
  <2>1. ASSUME NEW d \in Devices, Busy(d)' PROVE Busy(d) \/ d = req'[w].dev
    BY <1>1, <2>1, RequestStep DEF Busy, Pending, Narrowed
  <2>2. ASSUME NEW v \in Workers, Pending(v)', NEW d \in req'[v].quiet
        PROVE  ~Busy(d)' /\ (jar[d].ref = None \/ jar[d].ref # req'[v].jti)
    <3>0. d \in Devices
      BY <2>2 DEF TypeOK, Pending, Requests
    <3>1. CASE v = w
      <4>1. ~Busy(d) /\ d # req'[w].dev
        BY <1>1, <2>2, <3>1, RequestStep
      <4>2. req'[w].jti = IF req'[w].dev = None THEN None ELSE jar[req'[w].dev].ref
        BY <1>1, RequestStep DEF Begun
      <4>3. req'[w].dev \in Devices \union {None}
        BY <2>2, <3>1 DEF TypeOK, Pending, Requests
      <4>4. jar[d].ref = None \/ jar[d].ref # req'[w].jti
        BY <3>0, <4>1, <4>2, <4>3 DEF OwnTokens
      <4> QED BY <2>1, <3>0, <3>1, <4>1, <4>4
    <3>2. CASE v # w
      <4>1. Pending(v) /\ d \in req[v].quiet /\ d # req'[w].dev /\ req'[v].jti = req[v].jti
        BY <1>1, <2>2, <3>2, RequestStep DEF Narrowed
      <4> QED BY <2>1, <3>0, <4>1 DEF Resting
    <3> QED BY <3>1, <3>2
  <2> QED BY <1>1, <2>2, RequestStep DEF Resting
<1>2. ASSUME NEW w \in Workers, Work(w) PROVE Resting'
  <2>1. ASSUME NEW v \in Workers, Pending(v)', NEW d \in req'[v].quiet
        PROVE  ~Busy(d)' /\ (jar'[d].ref = None \/ jar'[d].ref # req'[v].jti)
    <3>1. Pending(v) /\ d \in req[v].quiet /\ req'[v].jti = req[v].jti /\ d \in Devices
      <4>1. Pending(v) /\ req'[v].quiet = req[v].quiet /\ req'[v].jti = req[v].jti
        BY <1>2, <2>1, WorkStep DEF Pending, Follows
      <4>2. req[v].quiet \subseteq Devices
        BY <4>1, AtType DEF Pending, Requests
      <4> QED BY <2>1, <4>1, <4>2
    <3>2. ~Busy(d) /\ (jar[d].ref = None \/ jar[d].ref # req[v].jti)
      BY <3>1 DEF Resting
    <3> QED BY <1>2, <3>1, <3>2, AtRest
  <2> QED BY <2>1 DEF Resting
<1>3. CASE UNCHANGED <<user, jar, req, cut>>
  BY <1>3 DEF Resting, Pending, Busy
<1> QED BY <1>1, <1>2, <1>3, StepKinds

(* A device that does not serve does not begin to without new cookies.     *)
LEMMA NotServing ==
  ASSUME TypeOK, TypeOK', [Next]_vars, NEW d \in Devices, jar'[d].ref = jar[d].ref, ~Serves(d)
  PROVE  ~Serves(d)'
<1>1. ASSUME NEW x \in RowOf(jar[d].ref)', Live(x)' PROVE FALSE
  <2>1. x \in RowOf(jar[d].ref) /\ Live(x)
    BY <1>1, NoGain DEF Held, RowOf
  <2> QED BY <2>1 DEF Serves
<1> QED BY <1>1 DEF Serves

(* A device whose rows are among those a revocation writes serves no more. *)
LEMMA RevokedRows ==
  ASSUME TypeOK, NEW d \in Devices, jar'[d].ref = jar[d].ref, NEW rs, row' = Revoked(rs),
         \A r \in rs : row[r] # None,
         \A x \in RowOf(jar[d].ref) : Live(x) => x \in rs
  PROVE  ~Serves(d)'
<1>1. ASSUME NEW x \in Rows, row'[x] # None, row'[x].jti = jar[d].ref, ~row'[x].revoked,
             ~row'[x].expired
      PROVE  FALSE
  <2>1. CASE x \in rs
    <3>1. row[x] \in SessionRows /\ row'[x] = [row[x] EXCEPT !.revoked = TRUE]
      BY <1>1, <2>1 DEF Revoked, TypeOK
    <3> QED BY <1>1, <3>1 DEF SessionRows
  <2>2. CASE x \notin rs
    BY <1>1, <2>2 DEF Revoked, RowOf, Live
  <2> QED BY <2>1, <2>2
<1> QED BY <1>1 DEF Serves, RowOf, Live

LEMMA StagedStep ==
  ASSUME TypeOK, TypeOK', Resting, Staged, [Next]_vars
  PROVE  Staged'
<1> DEFINE Kept(v) ==
      /\ Pending(v) /\ req'[v].pc = req[v].pc /\ req'[v].seen = req[v].seen
      /\ req'[v].quiet \subseteq req[v].quiet
      /\ \A d \in req'[v].quiet : d \in Devices /\ jar'[d].ref = jar[d].ref
<1> DEFINE Good(v) ==
      \A d \in req'[v].quiet :
        /\ req'[v].pc \in {"write", "revoke"} =>
             \A x \in Rows : row'[x] # None /\ row'[x].jti = jar'[d].ref /\ Live(x)' =>
               x \in req'[v].seen
        /\ req'[v].pc \in {"own", "reissue"} => ~Serves(d)'
<1>1. ASSUME NEW v \in Workers, Kept(v) PROVE Good(v)
  <2> SUFFICES ASSUME NEW d \in req'[v].quiet
               PROVE  /\ req'[v].pc \in {"write", "revoke"} =>
                           \A x \in Rows : row'[x] # None /\ row'[x].jti = jar'[d].ref
                                            /\ Live(x)' => x \in req'[v].seen
                      /\ req'[v].pc \in {"own", "reissue"} => ~Serves(d)'
    OBVIOUS
  <2>1. d \in req[v].quiet /\ d \in Devices /\ jar'[d].ref = jar[d].ref
    BY <1>1
  <2>2. ASSUME req'[v].pc \in {"write", "revoke"}, NEW x \in Rows, row'[x] # None,
               row'[x].jti = jar'[d].ref, Live(x)'
        PROVE  x \in req'[v].seen
    <3>1. x \in RowOf(jar[d].ref) /\ Live(x)
      BY <2>1, <2>2, NoGain DEF Held, RowOf
    <3> QED BY <1>1, <2>1, <2>2, <3>1 DEF Staged
  <2>3. ASSUME req'[v].pc \in {"own", "reissue"} PROVE ~Serves(d)'
    BY <1>1, <2>1, <2>3, NotServing DEF Staged
  <2> QED BY <2>2, <2>3
<1>2. ASSUME \A v \in Workers : Pending(v)' => Good(v) PROVE Staged'
  BY <1>2 DEF Staged, RowOf
<1>3. ASSUME NEW v \in Workers, Pending(v)' PROVE req'[v].quiet \subseteq Devices
  BY <1>3 DEF TypeOK, Pending, Requests
<1>4. ASSUME NEW w \in Workers, Request(w) PROVE Staged'
  <2>1. Good(w)
    BY <1>4, RequestStep DEF Begun
  <2>2. ASSUME NEW v \in Workers, v # w, Pending(v)' PROVE Kept(v)
    BY <1>3, <1>4, <2>2, RequestStep DEF Narrowed
  <2> HIDE DEF Good, Kept
  <2> QED BY <1>1, <1>2, <2>1, <2>2
<1>5. ASSUME NEW w \in Workers, Work(w) PROVE Staged'
  <2>1. ASSUME NEW v \in Workers, Pending(v), NEW d \in req[v].quiet
        PROVE  d \in Devices /\ jar'[d] = jar[d] /\ (jar[d].ref = None \/ jar[d].ref # req[v].jti)
    <3>1. d \in Devices /\ ~Busy(d) /\ (jar[d].ref = None \/ jar[d].ref # req[v].jti)
      BY <2>1, AtType DEF Resting, Pending, Requests
    <3> QED BY <1>5, <3>1, AtRest
  <2>2. ASSUME NEW v \in Workers, v # w, Pending(v)' PROVE Kept(v)
    BY <1>5, <2>1, <2>2, WorkStep DEF Pending
  <2>3. ASSUME Pending(w)' PROVE Good(w)
    <3>1. Pending(w) /\ req'[w].quiet = req[w].quiet /\ req[w] \in Requests
      BY <1>5, <2>3, WorkStep DEF Pending, Follows
    <3>2. CASE req'[w].pc \in Elsewhere
      BY <3>2 DEF Elsewhere
    <3>3. CASE List(w)
      <4>1. /\ UNCHANGED <<row, jar>>
            /\ \E pc \in {"write", "revoke"}, xs \in {Listed, Listed \ RowOf(req[w].jti)} :
                 req'[w] = [req[w] EXCEPT !.pc = pc, !.seen = xs]
        BY <3>3, GotoStep DEF List, Step, stored
      <4>2. /\ req'[w].pc \in {"write", "revoke"}
            /\ Listed \ RowOf(req[w].jti) \subseteq req'[w].seen
        BY <3>1, <4>1 DEF Requests
      <4>3. ASSUME NEW d \in req'[w].quiet, NEW x \in Rows, row[x] # None,
                   row[x].jti = jar[d].ref, Live(x)
            PROVE  x \in req'[w].seen
        <5>1. row[x].jti # None
          BY <4>3, SessionsAssumption DEF TypeOK, SessionRows
        <5>2. x \in Listed /\ x \notin RowOf(req[w].jti)
          BY <2>1, <3>1, <4>3, <5>1 DEF Listed, RowOf
        <5> QED BY <4>2, <5>2
      <4> QED BY <4>1, <4>2, <4>3 DEF Live
    <3>4. CASE WriteOthers(w) /\ req'[w].pc = "own"
      <4>1. req[w].pc = "write" /\ row' = Revoked(req[w].seen) /\ ~SeenGone(w)
        BY <2>3, <3>4, GotoStep DEF WriteOthers, At, Fail, Step, Pending
      <4>2. ASSUME NEW d \in req[w].quiet PROVE ~Serves(d)'
        BY <2>1, <3>1, <4>1, RevokedRows DEF Staged, SeenGone
      <4> QED BY <3>1, <3>4, <4>2
    <3>5. CASE ReadOwn(w) /\ req'[w].pc = "reissue"
      BY <2>1, <3>1, <3>5, NotServing DEF ReadOwn, Staged, At
    <3> QED BY <1>5, <2>3, <3>2, <3>3, <3>4, <3>5, PcStep DEF Pending
  <2> HIDE DEF Good, Kept
  <2> QED BY <1>1, <1>2, <2>2, <2>3
<1>6. CASE UNCHANGED <<user, jar, req, cut>>
  <2>1. ASSUME NEW v \in Workers, Pending(v)' PROVE Kept(v)
    BY <1>3, <1>6, <2>1 DEF Pending
  <2> HIDE DEF Good, Kept
  <2> QED BY <1>1, <1>2, <2>1
<1> QED BY <1>4, <1>5, <1>6, StepKinds

LEMMA CutStep ==
  ASSUME TypeOK, NEW w \in Workers, Work(w), NEW d \in cut', d \notin cut
  PROVE  /\ Pending(w) /\ d \in req[w].quiet /\ user' = Bumped
         /\ \/ req[w].pc = "reissue"
            \/ req[w].pc = "revoke" /\ row' = Revoked(req[w].seen) /\ ~SeenGone(w)
<1>1. CASE Prune(w) \/ Create(w) \/ ReadRow(w) \/ ReadAccount(w) \/ Touch(w) \/ Rotate(w)
  BY <1>1 DEF Prune, Create, ReadRow, ReadAccount, Touch, Rotate, Fail, Step, history
<1>2. CASE End(w) \/ Bump(w) \/ List(w) \/ WriteOthers(w) \/ ReadOwn(w)
  BY <1>2 DEF End, Bump, List, WriteOthers, ReadOwn, Fail, Step, history
<1>3. CASE Void(w) \/ Mint(w) \/ Consume(w) \/ Respond(w) \/ Die(w)
  BY <1>3 DEF Void, Mint, Consume, Respond, Die, Fail, Step, history
<1>4. CASE Reissue(w)
  BY <1>4 DEF Reissue, At, Fail, Step, history, Pending
<1>5. CASE RevokeAll(w)
  BY <1>5 DEF RevokeAll, At, Fail, Step, history, Pending
<1> QED BY <1>1, <1>2, <1>3, <1>4, <1>5 DEF Work

(* A request of a device that is out leads to an error or to a revocation. *)
LEMMA HarmlessStep ==
  ASSUME TypeOK, NEW w \in Workers, Work(w), Harmless(w), Pending(w)'
  PROVE  Harmless(w)'
<1> DEFINE r == req[w]
<1>0. r \in Requests
  BY WorkStep
<1>1. ~Fail(w) /\ ~Drop(w)
  BY GotoStep DEF Fail, Step, Drop, Pending
<1>2. ASSUME NEW pc \in {"list", "revoke", "bump", "respond"}, req'[w] = [r EXCEPT !.pc = pc],
             pc = "list" => r.op \notin {"others", "password"}
      PROVE  Harmless(w)'
  <2>1. req'[w].pair = r.pair /\ req'[w].pc = pc /\ req'[w].op = r.op
    BY <1>0, <1>2 DEF Requests
  <2> QED BY <1>2, <2>1 DEF Harmless
<1>3. CASE ReadRow(w)
  <2>1. \A x \in RowOf(r.jti) : ~Live(x)
    BY <1>3 DEF Harmless, ReadRow, At
  <2>2. Goto(w, [r EXCEPT !.pc = "list"]) /\ r.op = "refresh"
    BY <1>1, <1>3, <2>1 DEF ReadRow, Step
  <2> QED BY <1>2, <2>2, GotoStep
<1>4. CASE List(w)
  <2>1. r.op \notin {"others", "password"}
    BY <1>4 DEF Harmless, List, At
  <2>2. req'[w] = [r EXCEPT !.pc = "revoke", !.seen = Listed]
    BY <1>4, <2>1, GotoStep DEF List, Step
  <2>3. req'[w].pair = r.pair /\ req'[w].pc = "revoke"
    BY <1>0, <2>2 DEF Requests
  <2> QED BY <2>3 DEF Harmless
<1>5. CASE End(w)
  BY <1>2, <1>5, GotoStep DEF End
<1>6. CASE Bump(w)
  BY <1>1, <1>2, <1>6, GotoStep DEF Bump
<1>7. CASE RevokeAll(w) \/ Respond(w) \/ Die(w)
  BY <1>1, <1>7 DEF RevokeAll, Respond, Die
<1>8. CASE \/ Prune(w) \/ Create(w) \/ ReadAccount(w) \/ Touch(w) \/ Rotate(w)
           \/ WriteOthers(w) \/ ReadOwn(w) \/ Reissue(w) \/ Void(w) \/ Mint(w) \/ Consume(w)
  BY <1>8 DEF Harmless, At, Prune, Create, ReadAccount, Touch, Rotate, WriteOthers, ReadOwn,
              Reissue, Void, Mint, Consume
<1> QED BY <1>3, <1>4, <1>5, <1>6, <1>7, <1>8 DEF Work

LEMMA OutStep ==
  ASSUME TypeOK, TypeOK', Ordered, Resting, Staged, Out, [Next]_vars
  PROVE  Out'
<1> DEFINE Gone(d) ==
      /\ jar'[d].acc = None \/ jar'[d].acc < user'.gen
      /\ ~Serves(d)'
      /\ \A v \in Workers : Pending(v)' /\ req'[v].dev = d => Harmless(v)'
<1>0. /\ cut \subseteq Devices /\ cut' \subseteq Devices /\ user.gen \in Nat
      /\ \A d \in Devices : jar[d].acc # None => jar[d].acc \in Nat
  BY DEF TypeOK
<1>1. ASSUME NEW v \in Workers, Pending(v), Harmless(v), req'[v].pair = req[v].pair,
             req'[v].pc = req[v].pc, req'[v].op = req[v].op, req'[v].jti = req[v].jti
      PROVE  Harmless(v)'
  <2>1. ASSUME req[v].pc = "row", NEW x \in RowOf(req[v].jti)', Live(x)' PROVE FALSE
    <3>1. x \in Rows /\ row'[x] # None /\ row'[x].jti = req[v].jti
      BY <1>1, <2>1 DEF RowOf
    <3>2. x \in RowOf(req[v].jti) /\ Live(x)
      BY <1>1, <2>1, <3>1, NoGain DEF Held, RowOf
    <3> QED BY <1>1, <2>1, <3>2 DEF Harmless
  <2> QED BY <1>1, <2>1 DEF Harmless, RowOf
<1>2. ASSUME NEW w \in Workers, Request(w), NEW d \in cut' PROVE Gone(d)
  <2>1. d \in cut /\ d \in Devices /\ UNCHANGED <<user, row, jar>>
    BY <1>0, <1>2, RequestStep
  <2>2. ~Accepts(jar[d].acc)
    BY <1>0, <2>1, SessionsAssumption DEF Out, Accepts
  <2>3. ASSUME NEW v \in Workers, Pending(v)', req'[v].dev = d PROVE Harmless(v)'
    <3>1. CASE v = w
      <4>1. req'[w].pair = None /\ req'[w].pc \in {"row", "end"} /\ req'[w].jti = jar[d].ref
        BY <1>2, <2>1, <2>2, <2>3, <3>1, SessionsAssumption, RequestStep DEF Begun
      <4>2. \A x \in RowOf(jar[d].ref) : ~Live(x)
        BY <2>1 DEF Out, Serves
      <4> QED BY <2>1, <3>1, <4>1, <4>2 DEF Harmless, RowOf, Live
    <3>2. CASE v # w
      <4>1. Pending(v) /\ Narrowed(req'[v], req[v], req'[w].dev)
        BY <1>2, <2>3, <3>2, RequestStep
      <4> QED BY <1>1, <2>1, <2>3, <4>1 DEF Narrowed, Out
    <3> QED BY <3>1, <3>2
  <2>4. ~Serves(d)'
    BY <2>1, NotServing DEF Out
  <2> QED BY <2>1, <2>3, <2>4 DEF Out
<1>3. ASSUME NEW w \in Workers, Work(w), NEW d \in cut' PROVE Gone(d)
  <2>1. CASE d \in cut
    <3>1. jar[d].acc = None \/ jar[d].acc < user.gen
      BY <2>1 DEF Out
    <3>2. ASSUME jar'[d] # jar[d] PROVE jar'[d].acc = None /\ jar'[d].ref = None
      <4>1. Pending(w) /\ req[w].dev = d
        BY <1>0, <1>3, <2>1, <3>2, JarStep, WorkStep DEF TypeOK, Pending
      <4>2. req[w].pair = None
        BY <2>1, <4>1 DEF Out, Harmless
      <4> QED BY <1>0, <1>3, <2>1, <3>2, <4>1, <4>2, JarStep DEF TypeOK
    <3>3. jar'[d].acc = None \/ jar'[d].acc < user'.gen
      BY <1>0, <1>3, <2>1, <3>1, <3>2, Generations
    <3>4. ~Serves(d)'
      <4>1. CASE jar'[d] = jar[d]
        BY <1>0, <2>1, <4>1, NotServing DEF Out
      <4>2. CASE jar'[d].ref = None
        <5>1. ASSUME NEW x \in Rows, row'[x] # None PROVE row'[x].jti # None
          <6>1. row'[x] \in SessionRows
            BY <5>1 DEF TypeOK
          <6> QED BY <6>1, SessionsAssumption DEF SessionRows
        <5> QED BY <4>2, <5>1 DEF Serves, RowOf
      <4> QED BY <3>2, <4>1, <4>2
    <3>5. ASSUME NEW v \in Workers, Pending(v)', req'[v].dev = d PROVE Harmless(v)'
      <4>1. CASE v = w
        <5>1. Pending(w) /\ req[w].dev = d
          BY <1>3, <3>5, <4>1, WorkStep DEF Pending, Follows
        <5> QED BY <1>3, <2>1, <3>5, <4>1, <5>1, HarmlessStep DEF Out
      <4>2. CASE v # w
        <5>1. req'[v] = req[v] /\ Pending(v)
          BY <1>3, <3>5, <4>2, WorkStep DEF Pending
        <5> QED BY <1>1, <2>1, <3>5, <5>1 DEF Out
      <4> QED BY <4>1, <4>2
    <3> QED BY <3>3, <3>4, <3>5
  <2>2. CASE d \notin cut
    <3>1. /\ Pending(w) /\ d \in req[w].quiet /\ user' = Bumped
          /\ \/ req[w].pc = "reissue"
             \/ req[w].pc = "revoke" /\ row' = Revoked(req[w].seen) /\ ~SeenGone(w)
      BY <1>3, <2>2, CutStep
    <3>2. d \in Devices /\ ~Busy(d)
      BY <1>0, <1>3, <3>1 DEF Resting
    <3>3. jar'[d] = jar[d] /\ ~Busy(d)'
      BY <1>3, <3>2, AtRest
    <3>4. jar'[d].acc = None \/ jar'[d].acc < user'.gen
      <4>1. user'.gen = user.gen + 1
        BY <1>0, <3>1 DEF Bumped, TypeOK
      <4>2. jar[d].acc = None \/ jar[d].acc <= user.gen
        BY <3>2 DEF Ordered
      <4> QED BY <1>0, <3>2, <3>3, <4>1, <4>2
    <3>5. ~Serves(d)'
      <4>1. CASE req[w].pc = "reissue"
        BY <3>1, <3>2, <3>3, <4>1, NotServing DEF Staged
      <4>2. CASE req[w].pc = "revoke" /\ row' = Revoked(req[w].seen) /\ ~SeenGone(w)
        BY <3>1, <3>2, <3>3, <4>2, RevokedRows DEF Staged, SeenGone
      <4> QED BY <3>1, <4>1, <4>2
    <3>6. \A v \in Workers : Pending(v)' => req'[v].dev # d
      BY <3>3 DEF Busy, Pending
    <3> QED BY <3>4, <3>5, <3>6
  <2> QED BY <2>1, <2>2
<1>4. ASSUME UNCHANGED <<user, jar, req, cut>>, NEW d \in cut' PROVE Gone(d)
  <2>1. d \in cut /\ d \in Devices
    BY <1>0, <1>4
  <2>2. ~Serves(d)'
    BY <1>4, <2>1, NotServing DEF Out
  <2>3. ASSUME NEW v \in Workers, Pending(v)', req'[v].dev = d PROVE Harmless(v)'
    BY <1>1, <1>4, <2>1, <2>3 DEF Out, Pending
  <2> QED BY <1>4, <2>1, <2>2, <2>3 DEF Out
<1>5. (\A d \in cut' : Gone(d)) => Out'
  BY DEF Out
<1> HIDE DEF Gone
<1> QED BY <1>2, <1>3, <1>4, <1>5, StepKinds

(* A device that was at rest while the others were revoked is out until it *)
(* signs in again, however revocations, rotations and logins interleave.   *)
THEOREM RevokedDevicesStayOut == Spec => []RevokedStayOut
<1>1. Init => IInv
  <2>1. ASSUME Init PROVE Ordered /\ OwnTokens /\ Resting /\ Staged /\ Out
    <3>1. user.gen = 0 /\ cut = {} /\ \A w \in Workers : ~Pending(w)
      BY <2>1 DEF Init, Pending
    <3>2. ASSUME NEW d \in Devices
          PROVE  \/ jar[d].acc = None /\ jar[d].ref = None
                 \/ jar[d].acc = 0 /\ d \in DOMAIN Seat /\ jar[d].ref = Seat[d]
      BY <2>1 DEF Init, NoCookies
    <3>3. \A d, e \in Devices : d # e /\ jar[d].ref = jar[e].ref => jar[d].ref = None
      BY <3>2, SessionsAssumption
    <3>4. Ordered
      BY <3>1, <3>2 DEF Ordered
    <3>5. OwnTokens /\ Resting /\ Staged /\ Out
      BY <3>1, <3>3 DEF OwnTokens, Resting, Staged, Out
    <3> QED BY <3>4, <3>5
  <2> QED BY <2>1, TypeInit DEF IInv
<1>2. IInv /\ [Next]_vars => IInv'
  <2>1. ASSUME IInv, [Next]_vars PROVE IInv'
    <3>1. TypeOK'
      BY <2>1, TypeStep DEF IInv
    <3> QED BY <2>1, <3>1, OrderedStep, OwnTokensStep, RestingStep, StagedStep, OutStep DEF IInv
  <2> QED BY <2>1
<1>3. IInv => RevokedStayOut
  BY SessionsAssumption DEF IInv, TypeOK, Out, RevokedStayOut, Accepts
<1> QED BY <1>1, <1>2, <1>3, PTL DEF Spec

-----------------------------------------------------------------------------
(* A device keeps its session: the inductive invariant                     *)

\* The refresh tokens a device has, has shown or will be answered with.
Holds(d, j) ==
  /\ j # None
  /\ \/ jar[d].ref = j
     \/ \E w \in Workers : /\ Pending(w) /\ req[w].dev = d
                           /\ \/ req[w].jti = j
                              \/ req[w].pair # None /\ req[w].pair.ref = j

\* No two rows have one token and no two devices hold one; the row a request refers to
\* belongs to its device, as long as it is there.
OwnRows ==
  /\ \A x, y \in Rows : row[x] # None /\ row[y] # None /\ row[x].jti = row[y].jti => x = y
  /\ \A d, e \in Devices, j \in Tokens : Holds(d, j) /\ Holds(e, j) => d = e
  /\ \A w \in Workers : Pending(w) /\ req[w].row # None =>
       /\ req[w].dev \in Devices
       /\ \A v \in Workers : Pending(v) /\ req[v].row = req[w].row => req[v].dev = req[w].dev
       /\ row[req[w].row] # None =>
            \A d \in Devices \ {req[w].dev} : ~Holds(d, row[req[w].row].jti)

\* A cookie does not come alone, and without a browser there is none.
Cookies ==
  /\ \A d \in Devices : jar[d].acc # None => jar[d].ref # None
  /\ \A w \in Workers : Pending(w) /\ req[w].dev = None => req[w].jti = None

\* The request ends in an excuse, or in a session that is there now or will be made.
OnItsWay(w) ==
  LET r == req[w] IN
  \/ r.pc = "end"
  \/ /\ r.op # "logout"
     /\ \/ r.pc \in {"prune", "create"}
        \/ /\ r.pc \in {"row", "list", "write", "own", "account", "touch", "rotate", "reissue"}
           /\ jar[r.dev].ref = r.jti /\ Serves(r.dev)
           /\ r.pc \in {"list", "write"} => r.op \in {"others", "password"}
           /\ r.pc = "write" => \A x \in RowOf(r.jti) : x \notin r.seen
           /\ r.pc \in {"account", "touch", "rotate", "reissue"} =>
                r.row \in RowOf(r.jti) /\ Live(r.row)
        \/ /\ r.pc = "respond" /\ r.pair # None
           /\ \E x \in RowOf(r.pair.ref) : Live(x)

Provided ==
  \A d \in Devices \ excused :
    /\ ~Busy(d) /\ jar[d].ref # None => Serves(d)
    /\ \A w \in Workers : Pending(w) /\ req[w].dev = d =>
         /\ OnItsWay(w)
         /\ \A v \in Workers : Pending(v) /\ req[v].dev = d => v = w

-----------------------------------------------------------------------------
(* What a request that begins is to a device                               *)

LEMMA RequestExcuses ==
  ASSUME TypeOK, NEW w \in Workers, Request(w)
  PROVE  Excusing(req'[w])
<1>1. ASSUME NEW r \in Requests, Begin(w, r), Excusing(r) PROVE Excusing(req'[w])
  <2> DEFINE q == [r EXCEPT !.quiet = {d \in Devices : ~Busy(d)} \ {r.dev}]
  <2>1. q \in Requests /\ q.row = r.row /\ q.dev = r.dev /\ q.pc = r.pc /\ q.op = r.op
    BY DEF Requests
  <2>2. req'[w] = q
    BY <1>1, BeginShape
  <2> HIDE DEF q
  <2> QED BY <1>1, <2>1, <2>2 DEF Excusing
<1>2. ASSUME NEW d \in Devices \union {None}, NEW op \in Ops
      PROVE  Fresh(op, d).row = None /\ Fresh(op, d).op = op
  BY DEF Fresh
<1>3. \A d \in Devices : d # None
  BY SessionsAssumption
<1>4. user.gen \in Nat /\ \A l \in Links : link[l].purpose \in Ops
  BY DEF TypeOK, Ops
\* A request of the device d that does no more than BeginAt.
<1>5. ASSUME NEW d \in Devices, NEW r \in Requests, BeginAt(w, r), r.dev = d, r.row = None,
             r.op # "logout",
             \/ r.pc = "row" /\ jar[d].ref # None
             \/ r.pc = "list" /\ jar[d].acc # None /\ r.op \in {"others", "password"}
      PROVE  Excusing(req'[w])
  <2>1. \A e \in Devices \ excused' : e \notin excused /\ (e = d => ~Busy(e))
    BY <1>5 DEF BeginAt
  <2>2. Excusing(r)
    BY <1>5, <2>1 DEF Excusing
  <2> QED BY <1>1, <1>5, <2>2 DEF BeginAt
<1>6. ASSUME NEW d \in Devices, Refresh(w, d) \/ Activity(w, d) PROVE Excusing(req'[w])
  <2>1. ASSUME NEW op \in {"refresh", "activity"}, BeginAt(w, Fresh(op, d)), jar[d].ref # None
        PROVE  Excusing(req'[w])
    <3>1. op \in Ops /\ op # "logout"
      BY DEF Ops
    <3>2. /\ Fresh(op, d) \in Requests /\ Fresh(op, d).dev = d /\ Fresh(op, d).pc = "row"
          /\ Fresh(op, d).row = None /\ Fresh(op, d).op # "logout"
      BY <1>2, <1>3, <3>1, FreshBegun
    <3> HIDE DEF Fresh
    <3> QED BY <1>5, <2>1, <3>2
  <2> QED BY <1>6, <2>1 DEF Refresh, Activity
<1>7. ASSUME NEW d \in Devices, SwitchTenant(w, d) PROVE Excusing(req'[w])
  <2> DEFINE f == Fresh("switch", d)
  <2> DEFINE r == [f EXCEPT !.gen = user.gen]
  <2>1. /\ f \in Requests /\ f.dev = d /\ f.pc = "row" /\ f.row = None /\ f.op = "switch"
    BY <1>2, FreshBegun DEF Ops
  <2>2. r \in Requests /\ r.dev = d /\ r.pc = "row" /\ r.row = None /\ r.op = "switch"
    BY <1>4, <2>1 DEF Requests
  <2>3. BeginAt(w, r) /\ jar[d].ref # None
    BY <1>7 DEF SwitchTenant
  <2> HIDE DEF r, f
  <2> QED BY <1>5, <2>2, <2>3
<1>8. ASSUME NEW d \in Devices, RevokeOthers(w, d) PROVE Excusing(req'[w])
  <2>1. PICK op \in {"others", "password"} : BeginAt(w, [Fresh(op, d) EXCEPT !.pc = "list"])
    BY <1>8 DEF RevokeOthers
  <2> DEFINE f == Fresh(op, d)
  <2> DEFINE r == [f EXCEPT !.pc = "list"]
  <2>2. f \in Requests /\ f.dev = d /\ f.row = None /\ f.op = op
    BY <1>2, FreshBegun DEF Ops
  <2>3. r \in Requests /\ r.dev = d /\ r.pc = "list" /\ r.row = None /\ r.op = op
    BY <2>2 DEF Requests, PCs
  <2>4. jar[d].acc # None
    BY <1>4, <1>8, SessionsAssumption DEF RevokeOthers, Accepts
  <2>5. BeginAt(w, r)
    BY <2>1
  <2> HIDE DEF r, f
  <2> QED BY <1>5, <2>3, <2>4, <2>5
<1>9. ASSUME NEW d \in Devices, Login(w, d) PROVE Excusing(req'[w])
  <2> DEFINE f == Fresh("login", d)
  <2>1. PICK pc \in {"prune", "create"} : Begin(w, [f EXCEPT !.pc = pc, !.gen = user.gen])
    BY <1>9 DEF Login
  <2> DEFINE r == [f EXCEPT !.pc = pc, !.gen = user.gen]
  <2>2. f \in Requests /\ f.dev = d /\ f.row = None /\ f.op = "login"
    BY <1>2, FreshBegun DEF Ops
  <2>3. r \in Requests /\ r.dev = d /\ r.pc = pc /\ r.row = None /\ r.op = "login"
    BY <1>4, <2>2 DEF Requests, PCs
  <2>4. \A e \in Devices \ excused' : IF e = d THEN ~Busy(e) ELSE e \notin excused
    BY <1>9 DEF Login
  <2>5. Begin(w, r)
    BY <2>1
  <2> HIDE DEF r, f
  <2>6. Excusing(r)
    BY <2>3, <2>4 DEF Excusing
  <2> QED BY <1>1, <2>3, <2>5, <2>6
<1>10. ASSUME NEW d \in Devices, Logout(w, d) PROVE Excusing(req'[w])
  <2> DEFINE f == Fresh("logout", d)
  <2> DEFINE r == [f EXCEPT !.pc = "end"]
  <2>1. f \in Requests /\ f.dev = d /\ f.row = None
    BY <1>2, FreshBegun DEF Ops
  <2>2. r \in Requests /\ r.dev = d /\ r.row = None
    BY <2>1 DEF Requests, PCs
  <2>3. Begin(w, r) /\ excused' = excused \union {d}
    BY <1>10 DEF Logout
  <2> HIDE DEF r, f
  <2>4. Excusing(r)
    BY <2>2, <2>3 DEF Excusing
  <2> QED BY <1>1, <2>2, <2>3, <2>4
\* Requests of nobody's browser.
<1>11. ASSUME NEW r \in Requests, BeginAt(w, r), r.dev = None, r.row = None
       PROVE  Excusing(req'[w])
  <2>1. excused \subseteq excused'
    BY <1>11 DEF BeginAt
  <2>2. Excusing(r)
    BY <1>3, <1>11, <2>1 DEF Excusing
  <2> QED BY <1>1, <1>11, <2>2 DEF BeginAt
<1>12. ASSUME SendReset(w) PROVE Excusing(req'[w])
  <2> DEFINE f == Fresh("issue", None)
  <2> DEFINE r == [f EXCEPT !.pc = "void"]
  <2>1. f \in Requests /\ f.dev = None /\ f.row = None
    BY <1>2, FreshBegun DEF Ops
  <2>2. r \in Requests /\ r.dev = None /\ r.row = None
    BY <2>1 DEF Requests, PCs
  <2>3. BeginAt(w, r)
    BY <1>12 DEF SendReset
  <2> HIDE DEF r, f
  <2> QED BY <1>11, <2>2, <2>3
<1>13. ASSUME NEW l \in Links, Redeem(w, l) PROVE Excusing(req'[w])
  <2> DEFINE f == Fresh(link[l].purpose, None)
  <2> DEFINE r == [f EXCEPT !.pc = "consume", !.link = l]
  <2>1. f \in Requests /\ f.dev = None /\ f.row = None
    BY <1>2, <1>4, FreshBegun
  <2>2. r \in Requests /\ r.dev = None /\ r.row = None
    BY <2>1 DEF Requests, PCs
  <2>3. BeginAt(w, r)
    BY <1>13 DEF Redeem
  <2> HIDE DEF r, f
  <2> QED BY <1>11, <2>2, <2>3
<1> QED BY <1>6, <1>7, <1>8, <1>9, <1>10, <1>12, <1>13 DEF Request

-----------------------------------------------------------------------------
(* Tokens and rows stay with their device                                  *)

\* The row x is gone, or is as good for its token as it was.
SameToken(x) == row'[x] = None \/ (row[x] # None /\ row'[x].jti = row[x].jti)

(* At most one row of a step gets a new token: one that a request has just *)
(* made or the one it refers to, and the request answers with it.          *)
LEMMA TokenStep ==
  ASSUME TypeOK, NEW w \in Workers, Work(w)
  PROVE  \/ \A x \in Rows : SameToken(x)
         \/ \E j \in FreeTokens : \E r :
              /\ \A x \in Rows \ {r} : SameToken(x)
              /\ r \in Rows => row'[r].jti = j
              /\ r \in FreeRows \/ (row[r] # None /\ r = req[w].row)
              /\ Pending(w)' /\ req'[w].pair # None /\ req'[w].pair.ref = j
<1> DEFINE r == req[w]
<1> DEFINE Nothing == \A x \in Rows : SameToken(x)
<1> DEFINE New(y, j) == /\ \A x \in Rows \ {y} : SameToken(x)
                        /\ y \in Rows => row'[y].jti = j
                        /\ y \in FreeRows \/ (row[y] # None /\ y = r.row)
                        /\ Pending(w)' /\ req'[w].pair # None /\ req'[w].pair.ref = j
<1> DEFINE Goal == Nothing \/ \E j \in FreeTokens : \E y : New(y, j)
<1>0. /\ row \in [Rows -> SessionRows \union {None}] /\ r \in Requests
      /\ r.gen \in Nat /\ Bumped.gen \in Nat
  BY WorkStep, RowTypes DEF TypeOK, Requests
<1>1. row' = row => Nothing
  BY DEF SameToken
<1>2. Fail(w) => Nothing
  BY <1>1 DEF Fail, Step, stored
<1>3. ASSUME NEW g \in Nat, NEW j \in Tokens,
             Goto(w, [r EXCEPT !.pc = "respond", !.pair = [acc |-> g, ref |-> j]])
      PROVE  Pending(w)' /\ req'[w].pair # None /\ req'[w].pair.ref = j
  <2> DEFINE p == [acc |-> g, ref |-> j]
  <2>1. p \in Pairs /\ p.ref = j
    BY DEF Pairs
  <2>2. req'[w] = [r EXCEPT !.pc = "respond", !.pair = p]
    BY <1>3, GotoStep
  <2> HIDE DEF p
  <2>3. req'[w] \in Requests
    <3>1. "respond" \in PCs
      BY DEF PCs
    <3>2. [r EXCEPT !.pc = "respond", !.pair = p] \in Requests
      BY <1>0, <2>1, <3>1, RequestType
    <3> QED BY <2>2, <3>2
  <2>4. req'[w].pair = p
    BY <1>0, <2>2 DEF Requests
  <2> QED BY <2>1, <2>3, <2>4, NoneAssumption DEF Pending
<1>4. ASSUME NEW g \in Nat, NEW j \in Least(FreeTokens), row[r.row] # None,
             row' = Rotated(r.row, j),
             Goto(w, [r EXCEPT !.pc = "respond", !.pair = [acc |-> g, ref |-> j]])
      PROVE  Goal
  <2>0. j \in Tokens /\ j \in FreeTokens
    BY RowTypes DEF Least
  <2>1. Pending(w)' /\ req'[w].pair # None /\ req'[w].pair.ref = j
    BY <1>3, <1>4, <2>0
  <2>2. \A x \in Rows \ {r.row} : SameToken(x)
    BY <1>0, <1>4 DEF Rotated, SameToken
  <2>3. r.row \in Rows => row'[r.row].jti = j
    BY <1>0, <1>4 DEF Rotated, SessionRows
  <2>4. New(r.row, j)
    BY <1>4, <2>1, <2>2, <2>3
  <2> HIDE DEF New
  <2> QED BY <2>0, <2>4
<1>5. ASSUME NEW rs, \A x \in rs : row[x] # None, row' = Revoked(rs) PROVE Nothing
  BY <1>0, <1>5 DEF Revoked, SessionRows, SameToken
<1>7. ASSUME Prune(w) PROVE Nothing
  BY <1>7 DEF Prune, SameToken
<1>8. ASSUME Create(w) PROVE Goal
  <2>1. PICK x \in Least(FreeRows), j \in Least(FreeTokens) :
          /\ row' = [row EXCEPT ![x] =
                       [jti |-> j, revoked |-> FALSE, idle |-> FALSE, expired |-> FALSE]]
          /\ Goto(w, [r EXCEPT !.pc = "respond", !.pair = [acc |-> r.gen, ref |-> j]])
    BY <1>8 DEF Create
  <2>2. x \in FreeRows /\ x \in Rows /\ j \in FreeTokens /\ j \in Tokens
    BY RowTypes DEF Least
  <2>3. Pending(w)' /\ req'[w].pair # None /\ req'[w].pair.ref = j
    BY <1>0, <1>3, <2>1, <2>2
  <2>4. row'[x].jti = j /\ \A y \in Rows \ {x} : SameToken(y)
    BY <1>0, <2>1, <2>2 DEF SameToken
  <2>5. New(x, j)
    BY <2>2, <2>3, <2>4
  <2> HIDE DEF New
  <2> QED BY <2>2, <2>5
<1>9. ASSUME Touch(w) PROVE Nothing
  <2>1. CASE row' = [row EXCEPT ![r.row].idle = FALSE] /\ row[r.row] # None
    BY <1>0, <2>1 DEF SessionRows, SameToken
  <2> QED BY <1>2, <1>9, <2>1 DEF Touch
<1>10. ASSUME Rotate(w) PROVE Goal
  <2>1. CASE \E j \in Least(FreeTokens) :
          /\ row[r.row] # None /\ row' = Rotated(r.row, j)
          /\ Goto(w, [r EXCEPT !.pc = "respond", !.pair = [acc |-> r.gen, ref |-> j]])
    BY <1>0, <1>4, <2>1
  <2> QED BY <1>2, <1>10, <2>1 DEF Rotate
<1>11. ASSUME End(w) PROVE Nothing
  BY <1>11 DEF End, SameToken
<1>12. ASSUME WriteOthers(w) \/ RevokeAll(w) PROVE Nothing
  BY <1>2, <1>5, <1>12 DEF WriteOthers, RevokeAll, SeenGone
<1>13. ASSUME Reissue(w) PROVE Goal
  <2>1. CASE \E j \in Least(FreeTokens) :
          /\ row[r.row] # None /\ row' = Rotated(r.row, j)
          /\ Goto(w, [r EXCEPT !.pc = "respond", !.pair = [acc |-> Bumped.gen, ref |-> j]])
    BY <1>0, <1>4, <2>1
  <2> QED BY <1>1, <1>2, <1>13, <2>1 DEF Reissue
<1>14. ASSUME ReadRow(w) \/ ReadAccount(w) \/ List(w) \/ ReadOwn(w) PROVE Nothing
  <2>1. row' = row
    BY <1>14 DEF ReadRow, ReadAccount, List, ReadOwn, Fail, Step, stored
  <2> QED BY <1>1, <2>1
<1>15. ASSUME Bump(w) \/ Void(w) \/ Mint(w) \/ Consume(w) \/ Respond(w) \/ Die(w) PROVE Nothing
  <2>1. row' = row
    BY <1>15 DEF Bump, Void, Mint, Consume, Respond, Die, Fail, Step, stored
  <2> QED BY <1>1, <2>1
<1> HIDE DEF Nothing, New
<1>16. Goal
  BY <1>7, <1>8, <1>9, <1>10, <1>11, <1>12, <1>13, <1>14, <1>15 DEF Work
<1> QED BY <1>16 DEF Nothing, New

(* The passing of time changes no token.                                   *)
LEMMA AgeingStep ==
  ASSUME TypeOK, NEW r \in Rows, GetsIdle(r) \/ Expires(r)
  PROVE  /\ UNCHANGED <<user, jar, req>>
         /\ \A x \in Rows : /\ SameToken(x) /\ (row[x] # None => row'[x] # None)
                            /\ x # r \/ GetsIdle(r) => (Live(x) => Live(x)')
<1>0. row \in [Rows -> SessionRows \union {None}] /\ row[r] \in SessionRows /\ row[r] # None
  BY DEF TypeOK, GetsIdle, Expires, Live
<1>1. CASE GetsIdle(r)
  <2>1. row' = [row EXCEPT ![r].idle = TRUE]
    BY <1>1 DEF GetsIdle
  <2>2. row'[r] = [row[r] EXCEPT !.idle = TRUE] /\ \A x \in Rows \ {r} : row'[x] = row[x]
    BY <1>0, <2>1
  <2>3. /\ row'[r] # None /\ row'[r].jti = row[r].jti /\ row'[r].revoked = row[r].revoked
        /\ row'[r].expired = row[r].expired
    BY <1>0, <2>2, NoneAssumption DEF SessionRows
  <2> QED BY <1>0, <1>1, <2>2, <2>3 DEF GetsIdle, SameToken, Live
<1>2. CASE Expires(r)
  <2>1. row' = [row EXCEPT ![r].expired = TRUE]
    BY <1>2 DEF Expires
  <2>2. row'[r] = [row[r] EXCEPT !.expired = TRUE] /\ \A x \in Rows \ {r} : row'[x] = row[x]
    BY <1>0, <2>1
  <2>3. row'[r] # None /\ row'[r].jti = row[r].jti
    BY <1>0, <2>2, NoneAssumption DEF SessionRows
  <2>4. ASSUME GetsIdle(r) PROVE Live(r)'
    <3>1. row'[r] = [row[r] EXCEPT !.idle = TRUE]
      BY <1>0, <2>4 DEF GetsIdle
    <3> QED BY <1>0, <2>3, <2>4, <3>1 DEF GetsIdle, Live, SessionRows
  <2> QED BY <1>0, <1>2, <2>2, <2>3, <2>4 DEF Expires, SameToken, Live
<1> QED BY <1>1, <1>2

(* What a device comes to hold is a new token, made by a request of its own. *)
LEMMA HoldsStep ==
  ASSUME TypeOK, NEW w \in Workers, Work(w), NEW d \in Devices, NEW j, Holds(d, j)'
  PROVE  Holds(d, j) \/ (j \in FreeTokens /\ req[w].dev = d)
<1>1. ASSUME NEW v \in Workers, Pending(v)', req'[v].dev = d,
             req'[v].jti = j \/ (req'[v].pair # None /\ req'[v].pair.ref = j), j # None
      PROVE  Holds(d, j) \/ (j \in FreeTokens /\ req[w].dev = d)
  <2>1. CASE v = w
    <3>1. Pending(w) /\ Follows(req'[w], req[w])
      BY <1>1, <2>1, WorkStep DEF Pending
    <3> QED BY <1>1, <2>1, <3>1 DEF Follows, Holds
  <2>2. CASE v # w
    <3>1. Pending(v) /\ req'[v] = req[v]
      BY <1>1, <2>2, WorkStep DEF Pending
    <3> QED BY <1>1, <3>1 DEF Holds
  <2> QED BY <2>1, <2>2
<1>2. ASSUME j # None, jar'[d].ref = j PROVE Holds(d, j)
  <2>1. CASE jar' = jar
    BY <1>2, <2>1 DEF Holds
  <2>2. CASE jar' # jar
    <3>1. \/ jar'[d].ref = jar[d].ref \/ jar'[d].ref = None
          \/ d = req[w].dev /\ req[w].pair # None /\ jar'[d].ref = req[w].pair.ref
      BY <1>2, <2>2, JarStep DEF TypeOK
    <3> QED BY <1>2, <3>1, WorkStep DEF Holds, Pending
  <2> QED BY <2>1, <2>2
<1> QED BY <1>1, <1>2 DEF Holds

(* Only a request that begins or goes on can hold or refer to anything new. *)
LEMMA HoldsAsBefore ==
  ASSUME TypeOK, NEW w \in Workers, Request(w), NEW d \in Devices, NEW j, Holds(d, j)'
  PROVE  Holds(d, j)
<1>1. ASSUME NEW v \in Workers, Pending(v)', req'[v].dev = d,
             req'[v].jti = j \/ (req'[v].pair # None /\ req'[v].pair.ref = j), j # None
      PROVE  Holds(d, j)
  <2>1. CASE v = w
    BY <1>1, <2>1, RequestStep, SessionsAssumption DEF Begun, Holds
  <2>2. CASE v # w
    <3>1. Pending(v) /\ Narrowed(req'[v], req[v], req'[w].dev)
      BY <1>1, <2>2, RequestStep
    <3> QED BY <1>1, <3>1 DEF Narrowed, Holds
  <2> QED BY <2>1, <2>2
<1>2. jar' = jar
  BY RequestStep
<1> QED BY <1>1, <1>2 DEF Holds

(* A new token is nobody's.                                                *)
LEMMA FreeIsNobodys ==
  ASSUME NEW j \in FreeTokens, NEW d \in Devices
  PROVE  ~Holds(d, j) /\ \A x \in Rows : row[x] # None => row[x].jti # j
BY DEF FreeTokens, Holds, Pending, RowOf

LEMMA OwnRowsStep ==
  ASSUME TypeOK, TypeOK', OwnRows, Cookies, [Next]_vars
  PROVE  OwnRows'
<1> DEFINE Distinct == \A x, y \in Rows : row'[x] # None /\ row'[y] # None
                                          /\ row'[x].jti = row'[y].jti => x = y
<1> DEFINE Apart == \A d, e \in Devices, j \in Tokens : Holds(d, j)' /\ Holds(e, j)' => d = e
<1> DEFINE Owned(w) ==
      req'[w].row # None =>
       /\ req'[w].dev \in Devices
       /\ \A v \in Workers : Pending(v)' /\ req'[v].row = req'[w].row => req'[v].dev = req'[w].dev
       /\ row'[req'[w].row] # None =>
            \A d \in Devices \ {req'[w].dev} : ~Holds(d, row[req[w].row].jti)'
<1>1. Distinct /\ Apart /\ (\A w \in Workers : Pending(w)' => Owned(w)) => OwnRows'
  BY DEF OwnRows
<1>2. ASSUME \A x \in Rows : SameToken(x) PROVE Distinct
  <2>1. ASSUME NEW x \in Rows, row'[x] # None PROVE row[x] # None /\ row'[x].jti = row[x].jti
    BY <1>2, <2>1 DEF SameToken
  <2> QED BY <2>1 DEF OwnRows
\* No worker is at work: requests are what they were, and hold no more than before.
<1>3. ASSUME \A x \in Rows : SameToken(x),
             \A d \in Devices : \A j : Holds(d, j)' => Holds(d, j),
             \A v \in Workers : Pending(v)' /\ req'[v].row # None =>
               /\ Pending(v) /\ req'[v].dev = req[v].dev /\ req'[v].row = req[v].row
      PROVE  OwnRows'
  <2>1. Apart
    BY <1>3 DEF OwnRows
  <2>2. ASSUME NEW w \in Workers, Pending(w)', req'[w].row # None
        PROVE  /\ req'[w].dev \in Devices
               /\ \A v \in Workers : Pending(v)' /\ req'[v].row = req'[w].row =>
                                       req'[v].dev = req'[w].dev
    BY <1>3, <2>2 DEF OwnRows
  <2>3. ASSUME NEW w \in Workers, Pending(w)', req'[w].row # None, row'[req'[w].row] # None,
               NEW d \in Devices \ {req'[w].dev}, Holds(d, row[req[w].row].jti)'
        PROVE  FALSE
    <3>1. /\ Pending(w) /\ req'[w].dev = req[w].dev /\ req'[w].row = req[w].row
          /\ req[w].row \in Rows
      BY <1>3, <2>3, AtType DEF Pending, Requests
    <3>2. row[req[w].row] # None /\ row'[req[w].row].jti = row[req[w].row].jti
      BY <1>3, <2>3, <3>1 DEF SameToken
    <3>3. Holds(d, row[req[w].row].jti)
      BY <1>3, <2>3, <3>1, <3>2
    <3> QED BY <2>3, <3>1, <3>2, <3>3 DEF OwnRows
  <2>4. ASSUME NEW w \in Workers, Pending(w)' PROVE Owned(w)
    BY <2>2, <2>3, <2>4
  <2> HIDE DEF Distinct, Apart, Owned
  <2> QED BY <1>1, <1>2, <1>3, <2>1, <2>4
<1>4. ASSUME NEW w \in Workers, Request(w) PROVE OwnRows'
  <2>1. \A x \in Rows : SameToken(x)
    BY <1>4, RequestStep DEF SameToken
  <2>2. ASSUME NEW v \in Workers, Pending(v)', req'[v].row # None
        PROVE  Pending(v) /\ req'[v].dev = req[v].dev /\ req'[v].row = req[v].row
    BY <1>4, <2>2, RequestExcuses, RequestStep DEF Excusing, Narrowed
  <2> QED BY <1>3, <1>4, <2>1, <2>2, HoldsAsBefore
<1>5. ASSUME NEW w \in Workers, Work(w) PROVE OwnRows'
  <2> DEFINE e == req[w].dev
  <2>1. ASSUME NEW d \in Devices, NEW j, Holds(d, j)'
        PROVE  Holds(d, j) \/ (j \in FreeTokens /\ e = d)
    BY <1>5, <2>1, HoldsStep
  <2>2. Apart
    BY <2>1, FreeIsNobodys DEF OwnRows
  <2>3. Distinct
    <3>1. CASE \E j \in FreeTokens : \E r : /\ \A x \in Rows \ {r} : SameToken(x)
                                            /\ r \in Rows => row'[r].jti = j
      <4>1. PICK j, r : /\ j \in FreeTokens
                        /\ \A x \in Rows \ {r} : SameToken(x)
                        /\ r \in Rows => row'[r].jti = j
        BY <3>1
      <4>2. ASSUME NEW x \in Rows, row'[x] # None
            PROVE  \/ x = r /\ row'[x].jti = j
                   \/ row[x] # None /\ row'[x].jti = row[x].jti /\ row'[x].jti # j
        <5>1. CASE x = r
          BY <4>1, <5>1
        <5>2. CASE x # r
          BY <4>1, <4>2, <5>2 DEF SameToken, FreeTokens, RowOf
        <5> QED BY <5>1, <5>2
      <4> QED BY <4>2 DEF OwnRows
    <3> QED BY <1>2, <1>5, <3>1, TokenStep
  \* The row a request refers to was its own, or it has just looked it up.
  <2>4. ASSUME NEW v \in Workers, Pending(v)', req'[v].row # None
        PROVE  /\ Pending(v) /\ req'[v].dev = req[v].dev /\ req'[v].row \in Rows
               /\ \/ req'[v].row = req[v].row
                  \/ /\ v = w /\ e \in Devices
                     /\ row[req'[w].row] # None /\ Holds(e, row[req'[w].row].jti)
    <3>0. req'[v].row \in Rows
      <4>1. req'[v] \in Requests
        BY <2>4 DEF TypeOK, Pending
      <4> QED BY <2>4, <4>1 DEF Requests
    <3>1. CASE v # w
      BY <1>5, <2>4, <3>0, <3>1, WorkStep DEF Pending
    <3>2. CASE v = w
      <4>1. Pending(w) /\ Follows(req'[w], req[w]) /\ req[w] \in Requests
        BY <1>5, <2>4, <3>2, WorkStep DEF Pending
      <4>2. CASE req'[w].row = req[w].row
        BY <2>4, <3>0, <3>2, <4>1, <4>2 DEF Follows
      <4>3. CASE req'[w].row \in RowOf(req[w].jti)
        <5>1. row[req'[w].row] # None /\ row[req'[w].row].jti = req[w].jti
          BY <4>3 DEF RowOf
        <5>2. req[w].jti # None
          <6>1. row[req'[w].row] \in SessionRows
            BY <3>0, <3>2, <5>1 DEF TypeOK
          <6> QED BY <5>1, <6>1, SessionsAssumption DEF SessionRows
        <5>3. e \in Devices
          BY <4>1, <5>2 DEF Cookies, Requests
        <5>4. Holds(e, req[w].jti)
          BY <4>1, <5>2 DEF Holds
        <5> QED BY <3>0, <3>2, <4>1, <5>1, <5>3, <5>4 DEF Follows
      <4> QED BY <4>1, <4>2, <4>3 DEF Follows
    <3> QED BY <3>1, <3>2
  <2>5. ASSUME NEW v \in Workers, Pending(v)', req'[v].row # None PROVE req'[v].dev \in Devices
    BY <2>4, <2>5 DEF OwnRows
  <2>6. ASSUME NEW v \in Workers, Pending(v)', req'[v].row # None, req'[v].row = req[v].row,
               e \in Devices, row[req'[v].row] # None, Holds(e, row[req'[v].row].jti)
        PROVE  req'[v].dev = e
    BY <2>4, <2>6 DEF OwnRows
  <2>7. ASSUME NEW v \in Workers, Pending(v)', req'[v].row # None,
               NEW u \in Workers, Pending(u)', req'[u].row = req'[v].row
        PROVE  req'[u].dev = req'[v].dev
    <3>1. CASE req'[v].row = req[v].row /\ req'[u].row = req[u].row
      BY <2>4, <2>7, <3>1 DEF OwnRows
    <3>2. CASE req'[v].row # req[v].row /\ req'[u].row = req[u].row
      BY <2>4, <2>6, <2>7, <3>2
    <3>3. CASE req'[v].row = req[v].row /\ req'[u].row # req[u].row
      BY <2>4, <2>6, <2>7, <3>3
    <3>4. CASE req'[v].row # req[v].row /\ req'[u].row # req[u].row
      BY <2>4, <2>7, <3>4
    <3> QED BY <3>1, <3>2, <3>3, <3>4
  <2>8. ASSUME NEW v \in Workers, Pending(v)', req'[v].row # None, row'[req'[v].row] # None,
               NEW d \in Devices, d # req'[v].dev, Holds(d, row[req[v].row].jti)'
        PROVE  FALSE
    <3> DEFINE x == req'[v].row
    <3>0. x \in Rows
      BY <2>4, <2>8
    <3>1. CASE SameToken(x)
      <4>1. row[x] # None /\ row'[x].jti = row[x].jti /\ row[x].jti \in Tokens
        BY <2>8, <3>0, <3>1 DEF SameToken, TypeOK, SessionRows
      <4>2. Holds(d, row[x].jti)
        BY <2>1, <2>8, <3>0, <4>1, FreeIsNobodys
      <4>3. CASE x = req[v].row
        BY <2>4, <2>8, <4>1, <4>2, <4>3 DEF OwnRows
      <4>4. CASE x # req[v].row
        BY <2>4, <2>8, <4>1, <4>2, <4>4 DEF OwnRows
      <4> QED BY <4>3, <4>4
    <3>2. CASE ~SameToken(x)
      <4>1. PICK j, r : /\ j \in FreeTokens
                        /\ \A y \in Rows \ {r} : SameToken(y)
                        /\ r \in Rows => row'[r].jti = j
                        /\ r \in FreeRows \/ (row[r] # None /\ r = req[w].row)
        BY <1>5, <3>0, <3>2, TokenStep
      <4>2. x = r /\ row'[x].jti = j
        BY <3>0, <3>2, <4>1
      <4>3. e = d
        BY <2>1, <2>8, <4>1, <4>2, FreeIsNobodys
      <4>4. CASE x \in FreeRows
        BY <2>4, <2>8, <4>4 DEF FreeRows, Pending
      <4>5. CASE row[x] # None /\ x = req[w].row
        <5>1. Pending(w) /\ req[w].row # None
          BY <1>5, <2>8, <4>5, WorkStep DEF Pending
        <5>2. CASE x = req[v].row
          BY <2>4, <2>8, <4>3, <4>5, <5>1, <5>2 DEF OwnRows
        <5>3. CASE x # req[v].row
          BY <2>4, <2>8, <4>3, <5>3
        <5> QED BY <5>2, <5>3
      <4> QED BY <4>1, <4>2, <4>4, <4>5
    <3> QED BY <3>1, <3>2
  <2>9. ASSUME NEW v \in Workers, Pending(v)' PROVE Owned(v)
    BY <2>5, <2>7, <2>8, <2>9
  <2> HIDE DEF Distinct, Apart, Owned
  <2> QED BY <1>1, <2>2, <2>3, <2>9
<1>6. ASSUME NEW r \in Rows, GetsIdle(r) \/ Expires(r) PROVE OwnRows'
  <2>1. UNCHANGED <<jar, req>> /\ \A x \in Rows : SameToken(x)
    BY <1>6, AgeingStep
  <2> QED BY <1>3, <2>1 DEF Holds, Pending
<1>7. CASE UNCHANGED vars
  <2>1. \A x \in Rows : SameToken(x)
    BY <1>7 DEF vars, stored, SameToken
  <2> QED BY <1>3, <1>7, <2>1 DEF vars, Holds, Pending
<1> QED BY <1>4, <1>5, <1>6, <1>7 DEF Next

LEMMA CookiesStep ==
  ASSUME TypeOK, TypeOK', Cookies, [Next]_vars
  PROVE  Cookies'
<1>1. ASSUME NEW w \in Workers, Request(w) PROVE Cookies'
  <2>1. ASSUME NEW v \in Workers, Pending(v)', req'[v].dev = None PROVE req'[v].jti = None
    <3>1. CASE v = w
      BY <1>1, <2>1, <3>1, RequestStep DEF Begun
    <3>2. CASE v # w
      BY <1>1, <2>1, <3>2, RequestStep DEF Narrowed, Cookies
    <3> QED BY <3>1, <3>2
  <2> QED BY <1>1, <2>1, RequestStep DEF Cookies
<1>2. ASSUME NEW w \in Workers, Work(w) PROVE Cookies'
  <2>1. ASSUME NEW v \in Workers, Pending(v)', req'[v].dev = None PROVE req'[v].jti = None
    BY <1>2, <2>1, WorkStep DEF Follows, Pending, Cookies
  <2>2. ASSUME NEW d \in Devices, jar'[d].acc # None PROVE jar'[d].ref # None
    <3>1. CASE jar'[d] = jar[d]
      BY <2>2, <3>1 DEF Cookies
    <3>2. CASE jar'[d] # jar[d]
      <4>1. req[w].pair # None /\ jar'[d] = req[w].pair /\ req[w] \in Requests
        BY <1>2, <2>2, <3>2, JarStep, WorkStep DEF TypeOK
      <4> QED BY <4>1, SessionsAssumption DEF Requests, Pairs
    <3> QED BY <3>1, <3>2
  <2> QED BY <2>1, <2>2 DEF Cookies
<1>3. CASE UNCHANGED <<user, jar, req, cut>>
  BY <1>3 DEF Cookies, Pending
<1> QED BY <1>1, <1>2, <1>3, StepKinds

-----------------------------------------------------------------------------
(* Nobody but the device itself touches the row it lives on                *)

(* A request of somebody else leaves the live row of a device alone, unless *)
(* it excuses the device.                                                   *)
LEMMA Spared ==
  ASSUME TypeOK, OwnRows, Cookies, NEW w \in Workers, Work(w), NEW d \in Devices,
         d \notin excused', req[w].dev # d, NEW j, Holds(d, j), NEW x \in RowOf(j), Live(x)
  PROVE  x \in RowOf(j)' /\ Live(x)'
<1> DEFINE r == req[w]
<1>0. /\ row \in [Rows -> SessionRows \union {None}] /\ r \in Requests /\ Pending(w)
      /\ x \in Rows /\ row[x] # None /\ row[x].jti = j /\ row[x] \in SessionRows
      /\ j \in Tokens /\ j # None /\ ~row[x].revoked /\ ~row[x].expired
  <2>1. row \in [Rows -> SessionRows \union {None}] /\ r \in Requests /\ Pending(w)
    BY WorkStep DEF TypeOK, Pending
  <2>2. x \in Rows /\ row[x] # None /\ row[x].jti = j /\ ~row[x].revoked /\ ~row[x].expired
    BY DEF RowOf, Live
  <2>3. row[x] \in SessionRows
    BY <2>1, <2>2
  <2> QED BY <2>1, <2>2, <2>3, SessionsAssumption DEF SessionRows
<1>1. ASSUME row'[x] = row[x] PROVE x \in RowOf(j)' /\ Live(x)'
  BY <1>0, <1>1 DEF RowOf, Live
<1>2. Fail(w) => row'[x] = row[x]
  BY DEF Fail, Step, stored
<1>3. x # r.row
  BY <1>0, SessionsAssumption DEF OwnRows
<1>4. r.jti # j
  <2>1. CASE r.dev = None
    BY <1>0, <2>1 DEF Cookies
  <2>2. ASSUME r.dev \in Devices, r.jti = j PROVE FALSE
    <3>1. Holds(r.dev, j)
      BY <1>0, <2>2 DEF Holds
    <3> QED BY <1>0, <2>2, <3>1 DEF OwnRows
  <2> QED BY <1>0, <2>1, <2>2 DEF Requests
<1>5. \A y, k : y # x => (row' = Rotated(y, k) => row'[x] = row[x])
  BY <1>0 DEF Rotated
<1>6. CASE Prune(w)
  BY <1>0, <1>1, <1>6 DEF Prune
<1>7. CASE Create(w)
  <2>1. PICK y, k :
          y \in FreeRows /\ row' = [row EXCEPT ![y] =
                    [jti |-> k, revoked |-> FALSE, idle |-> FALSE, expired |-> FALSE]]
    BY <1>7 DEF Create, Least
  <2>2. y # x
    BY <1>0, <2>1 DEF FreeRows
  <2>3. row'[x] = row[x]
    BY <1>0, <2>1, <2>2
  <2> QED BY <1>1, <2>3
<1>8. CASE Touch(w)
  <2>1. CASE row' = [row EXCEPT ![r.row].idle = FALSE]
    BY <1>0, <1>1, <1>3, <2>1
  <2> QED BY <1>1, <1>2, <1>8, <2>1 DEF Touch
<1>9. CASE Rotate(w)
  BY <1>1, <1>2, <1>3, <1>5, <1>9 DEF Rotate
<1>10. CASE End(w)
  <2>1. x \notin RowOf(r.jti)
    BY <1>0, <1>4 DEF RowOf
  <2> QED BY <1>0, <1>1, <1>10, <2>1 DEF End
<1>11. CASE WriteOthers(w)
  BY <1>1, <1>2, <1>11 DEF WriteOthers
<1>12. CASE Reissue(w)
  BY <1>1, <1>2, <1>3, <1>5, <1>12 DEF Reissue
<1>13. CASE RevokeAll(w)
  BY <1>1, <1>2, <1>13 DEF RevokeAll
<1>14. CASE ReadRow(w) \/ ReadAccount(w) \/ List(w) \/ ReadOwn(w)
  BY <1>1, <1>14 DEF ReadRow, ReadAccount, List, ReadOwn, Fail, Step, stored
<1>15. CASE Bump(w) \/ Void(w) \/ Mint(w) \/ Consume(w) \/ Respond(w) \/ Die(w)
  BY <1>1, <1>15 DEF Bump, Void, Mint, Consume, Respond, Die, Fail, Step, stored
<1> QED BY <1>6, <1>7, <1>8, <1>9, <1>10, <1>11, <1>12, <1>13, <1>14, <1>15 DEF Work

(* Time that passes in a session excuses the devices it may concern.       *)
LEMMA SparedByTime ==
  ASSUME TypeOK, NEW r \in Rows, GetsIdle(r) \/ Expires(r), NEW d \in Devices, d \notin excused',
         NEW j, Holds(d, j), NEW x \in RowOf(j), Live(x), Busy(d) \/ jar[d].ref = j
  PROVE  x \in RowOf(j)' /\ Live(x)'
<1>1. x \in Rows /\ row[x] # None /\ row[x].jti = j
  BY DEF RowOf
<1>2. x # r \/ GetsIdle(r)
  BY <1>1 DEF Expires, Holders
<1>3. row'[x] # None /\ row'[x].jti = row[x].jti /\ Live(x)'
  BY <1>1, <1>2, AgeingStep DEF SameToken
<1> QED BY <1>1, <1>3 DEF RowOf

(* A device is provided for as long as nothing of it changes and its live  *)
(* rows stay.                                                              *)
LEMMA StillProvided ==
  ASSUME TypeOK, [Next]_vars, Provided, NEW d \in Devices \ excused, jar'[d] = jar[d],
         \A w \in Workers : Pending(w)' /\ req'[w].dev = d =>
           /\ Pending(w) /\ req'[w].dev = req[w].dev /\ req'[w].op = req[w].op
           /\ req'[w].pc = req[w].pc /\ req'[w].jti = req[w].jti
           /\ req'[w].seen = req[w].seen /\ req'[w].row = req[w].row
           /\ req'[w].pair = req[w].pair,
         Busy(d) => Busy(d)',
         \A j : Holds(d, j) /\ (Busy(d) \/ jar[d].ref = j) =>
           \A x \in RowOf(j) : Live(x) => x \in RowOf(j)' /\ Live(x)'
  PROVE  /\ ~Busy(d)' /\ jar'[d].ref # None => Serves(d)'
         /\ \A w \in Workers : Pending(w)' /\ req'[w].dev = d =>
              /\ OnItsWay(w)'
              /\ \A v \in Workers : Pending(v)' /\ req'[v].dev = d => v = w
<1>1. ASSUME Serves(d) PROVE Serves(d)'
  <2>1. PICK x \in RowOf(jar[d].ref) : Live(x)
    BY <1>1 DEF Serves
  <2>2. jar[d].ref # None
    <3>1. row[x] \in SessionRows /\ row[x].jti = jar[d].ref
      BY <2>1 DEF TypeOK, RowOf
    <3> QED BY <3>1, SessionsAssumption DEF SessionRows
  <2>3. Holds(d, jar[d].ref)
    BY <2>2 DEF Holds
  <2>4. x \in RowOf(jar[d].ref)' /\ Live(x)'
    BY <2>1, <2>3
  <2>5. RowOf(jar[d].ref)' = {y \in Rows : row'[y] # None /\ row'[y].jti = jar'[d].ref}
    BY DEF RowOf
  <2> QED BY <2>4, <2>5 DEF Serves
<1>2. ASSUME ~Busy(d)', jar'[d].ref # None PROVE Serves(d)'
  BY <1>1, <1>2 DEF Provided
<1>3. ASSUME NEW w \in Workers, Pending(w)', req'[w].dev = d PROVE OnItsWay(w)'
  <2>1. OnItsWay(w) /\ Busy(d) /\ Pending(w) /\ req[w] \in Requests /\ req[w].dev = d
    BY <1>3, AtType DEF Provided, Busy, Pending
  <2>2. CASE req[w].pc = "end"
    BY <1>3, <2>2 DEF OnItsWay
  <2>3. CASE req[w].op # "logout" /\ req[w].pc \in {"prune", "create"}
    BY <1>3, <2>3 DEF OnItsWay
  <2>4. CASE /\ req[w].op # "logout"
             /\ req[w].pc \in {"row", "list", "write", "own", "account", "touch", "rotate",
                               "reissue"}
             /\ jar[d].ref = req[w].jti /\ Serves(d)
             /\ req[w].pc \in {"list", "write"} => req[w].op \in {"others", "password"}
             /\ req[w].pc = "write" => \A x \in RowOf(req[w].jti) : x \notin req[w].seen
             /\ req[w].pc \in {"account", "touch", "rotate", "reissue"} =>
                  req[w].row \in RowOf(req[w].jti) /\ Live(req[w].row)
    <3>1. Holds(d, req[w].jti)
      <4>1. PICK x \in RowOf(jar[d].ref) : Live(x)
        BY <2>4 DEF Serves
      <4>2. row[x] \in SessionRows /\ row[x].jti = jar[d].ref
        BY <4>1 DEF TypeOK, RowOf
      <4> QED BY <2>4, <4>2, SessionsAssumption DEF SessionRows, Holds
    <3>2. ASSUME req[w].pc = "write", NEW x \in RowOf(req[w].jti)' PROVE x \notin req'[w].seen
      <4>1. x \in Rows /\ row'[x] # None /\ row'[x].jti = req[w].jti
        BY <1>3, <3>2 DEF RowOf
      <4>2. x \in RowOf(req[w].jti)
        BY <3>1, <4>1, FreeIsNobodys, RowStep DEF RowGoesOn, RowOf
      <4> QED BY <1>3, <2>4, <3>2, <4>2
    <3>3. ASSUME req[w].pc \in {"account", "touch", "rotate", "reissue"}
          PROVE  req'[w].row \in RowOf(req[w].jti)' /\ Live(req[w].row)'
      <4> DEFINE x == req[w].row
      <4> DEFINE j == req[w].jti
      <4>1. x \in RowOf(j) /\ Live(x)
        BY <2>4, <3>3
      <4>2. \A k, y : k = j /\ y = x => y \in RowOf(k)' /\ Live(y)'
        <5>1. ASSUME NEW k, NEW y, k = j, y = x PROVE y \in RowOf(k)' /\ Live(y)'
          BY <2>1, <3>1, <4>1, <5>1
        <5> QED BY <5>1
      <4>3. x \in Rows /\ row'[x] # None /\ row'[x].jti = j /\ ~row'[x].revoked
            /\ ~row'[x].expired
        <5>1. \A k, y : k = j /\ y = x => /\ y \in Rows /\ row'[y] # None /\ row'[y].jti = k
                                          /\ ~row'[y].revoked /\ ~row'[y].expired
          BY <4>2 DEF RowOf, Live
        <5> QED BY <5>1
      <4> QED BY <1>3, <4>3 DEF RowOf, Live
    <3> QED BY <1>1, <1>3, <2>4, <3>2, <3>3 DEF OnItsWay
  <2>5. CASE /\ req[w].op # "logout" /\ req[w].pc = "respond" /\ req[w].pair # None
             /\ \E x \in RowOf(req[w].pair.ref) : Live(x)
    <3>1. PICK x \in RowOf(req[w].pair.ref) : Live(x)
      BY <2>5
    <3> DEFINE j == req[w].pair.ref
    <3>2. Holds(d, j)
      <4>1. j \in Tokens
        BY <2>1, <2>5 DEF Requests, Pairs
      <4> QED BY <2>1, <2>5, <4>1, SessionsAssumption DEF Holds
    <3>3. \A k : k = j => x \in RowOf(k)' /\ Live(x)'
      <4>1. ASSUME NEW k, k = j PROVE x \in RowOf(k)' /\ Live(x)'
        BY <2>1, <3>1, <3>2, <4>1
      <4> QED BY <4>1
    <3>4. x \in Rows /\ row'[x] # None /\ row'[x].jti = j /\ Live(x)'
      <4>1. \A k : k = j => x \in Rows /\ row'[x] # None /\ row'[x].jti = k /\ Live(x)'
        BY <3>3 DEF RowOf
      <4> QED BY <4>1
    <3>5. \E y \in RowOf(req[w].pair.ref)' : Live(y)'
      BY <1>3, <3>4 DEF RowOf
    <3> QED BY <1>3, <2>5, <3>5 DEF OnItsWay
  <2> QED BY <2>1, <2>2, <2>3, <2>4, <2>5 DEF OnItsWay
<1>4. ASSUME NEW w \in Workers, Pending(w)', req'[w].dev = d,
             NEW v \in Workers, Pending(v)', req'[v].dev = d
      PROVE  v = w
  BY <1>4 DEF Provided
<1> QED BY <1>2, <1>3, <1>4

-----------------------------------------------------------------------------
(* The device's own request                                                *)

LEMMA ExcusesStay ==
  ASSUME NEW w \in Workers, Work(w), excused \subseteq Devices
  PROVE  excused \subseteq excused'
<1>1. CASE Prune(w) \/ Create(w) \/ ReadRow(w) \/ ReadAccount(w) \/ Touch(w) \/ Rotate(w)
  BY <1>1 DEF Prune, Create, ReadRow, ReadAccount, Touch, Rotate, Fail, Step, history
<1>2. CASE End(w) \/ Bump(w) \/ List(w) \/ ReadOwn(w) \/ Reissue(w) \/ Void(w)
  BY <1>2 DEF End, Bump, List, ReadOwn, Reissue, Void, Fail, Step, history
<1>3. CASE Mint(w) \/ Consume(w) \/ Respond(w) \/ Die(w)
  BY <1>3 DEF Mint, Consume, Respond, Die, Fail, Step, history
<1>4. CASE WriteOthers(w) \/ RevokeAll(w)
  BY <1>4 DEF WriteOthers, RevokeAll, Fail, Step, history
<1> QED BY <1>1, <1>2, <1>3, <1>4 DEF Work

(* The one request of a device that is not excused leads, step by step, to *)
(* a live session in its cookies, or leaves the one it has.                *)
LEMMA OwnWork ==
  ASSUME TypeOK, OwnRows, Provided, NEW w \in Workers, Work(w),
         NEW d \in Devices, d \notin excused', req[w].dev = d
  PROVE  IF Pending(w)' THEN OnItsWay(w)' ELSE Serves(d)'
<1> DEFINE r == req[w]
<1> DEFINE Goal == IF Pending(w)' THEN OnItsWay(w)' ELSE Serves(d)'
<1> SUFFICES Goal
  OBVIOUS
<1>0. /\ r \in Requests /\ Pending(w) /\ d # None
      /\ row \in [Rows -> SessionRows \union {None}]
      /\ \A x \in Rows : row[x] # None => row[x] \in SessionRows
  BY WorkStep, SessionsAssumption DEF TypeOK, Pending
<1>1. d \notin excused
  BY ExcusesStay DEF TypeOK
<1>2. OnItsWay(w)
  BY <1>0, <1>1 DEF Provided
<1>3. r.pc \in {"row", "list", "write", "own", "account", "touch", "rotate", "reissue"} =>
        r.op # "logout" /\ jar[d].ref = r.jti /\ \E x \in RowOf(r.jti) : Live(x)
  BY <1>2 DEF OnItsWay, Serves
<1>4. \A x, y \in RowOf(r.jti) : x = y
  BY DEF OwnRows, RowOf
\* The request fails, or ends with the row it lives on as it was.
<1>5. ASSUME ~Pending(w)', jar' = jar, jar[d].ref = r.jti, NEW x \in RowOf(r.jti),
             row'[x] # None, row'[x].jti = row[x].jti, Live(x)'
      PROVE  Goal
  <2>1. x \in Rows /\ row'[x] # None /\ row'[x].jti = jar'[d].ref
    BY <1>5 DEF RowOf
  <2> QED BY <1>5, <2>1 DEF Serves, RowOf
<1>6. ASSUME Fail(w), r.pc \in {"row", "write", "account", "touch", "rotate", "reissue"} PROVE Goal
  <2>1. ~Pending(w)' /\ UNCHANGED <<row, jar>>
    BY <1>6, GotoStep DEF Fail, Step, stored, Pending
  <2>2. PICK x \in RowOf(r.jti) : Live(x)
    BY <1>3, <1>6
  <2>3. row'[x] # None /\ row'[x].jti = row[x].jti /\ Live(x)'
    BY <2>1, <2>2 DEF Live
  <2> HIDE DEF Goal
  <2> QED BY <1>3, <1>5, <1>6, <2>1, <2>2, <2>3
\* It has another step to take on the row it lives on.
<1>7. ASSUME req'[w] # None, req'[w].dev = d, req'[w].op = r.op, r.op # "logout",
             req'[w].pc \in {"own", "account", "touch", "rotate", "reissue"},
             jar' = jar, jar[d].ref = r.jti, req'[w].jti = r.jti, NEW x \in RowOf(r.jti),
             row'[x] = row[x], Live(x),
             req'[w].pc = "own" \/ req'[w].row = x
      PROVE  Goal
  <2>1. x \in Rows /\ row[x] # None /\ row[x].jti = r.jti /\ ~row[x].revoked /\ ~row[x].expired
    BY <1>7 DEF RowOf, Live
  <2>2. Serves(d)'
    BY <1>7, <2>1 DEF Serves, RowOf, Live
  <2>3. req'[w].pc # "own" => (req[w].row \in RowOf(req[w].jti) /\ Live(req[w].row))'
    BY <1>7, <2>1 DEF RowOf, Live
  <2> QED BY <1>7, <2>2, <2>3 DEF OnItsWay, Pending
\* It is going to answer with a new token of a live row.
<1>8. ASSUME NEW g, NEW j \in Tokens, g \in Nat, r.op # "logout",
             Goto(w, [r EXCEPT !.pc = "respond", !.pair = [acc |-> g, ref |-> j]]),
             NEW x \in Rows, row'[x] # None, row'[x].jti = j, ~row'[x].revoked, ~row'[x].expired
      PROVE  Goal
  <2> DEFINE p == [acc |-> g, ref |-> j]
  <2>1. req'[w] = [r EXCEPT !.pc = "respond", !.pair = p]
    BY <1>8, GotoStep
  <2>2. p \in Pairs /\ p.ref = j
    BY <1>8 DEF Pairs
  <2> HIDE DEF p
  <2>3. req'[w].pc = "respond" /\ req'[w].pair = p /\ req'[w].op = r.op
    BY <1>0, <2>1 DEF Requests
  <2>4. \E y \in RowOf(req[w].pair.ref)' : Live(y)'
    BY <1>8, <2>2, <2>3 DEF RowOf, Live
  <2>5. OnItsWay(w)'
    BY <1>8, <2>2, <2>3, <2>4, NoneAssumption DEF OnItsWay
  <2>6. req'[w] # None
    <3>1. "respond" \in PCs
      BY DEF PCs
    <3>2. [r EXCEPT !.pc = "respond", !.pair = p] \in Requests
      BY <1>0, <2>2, <3>1, RequestType
    <3> QED BY <2>1, <3>2, NoneAssumption
  <2> QED BY <2>5, <2>6 DEF Pending
<1>9. ASSUME NEW g \in Nat, NEW j \in Least(FreeTokens), r.pc \in {"rotate", "reissue"},
             row' = Rotated(r.row, j),
             Goto(w, [r EXCEPT !.pc = "respond", !.pair = [acc |-> g, ref |-> j]])
      PROVE  Goal
  <2>1. r.row \in RowOf(r.jti) /\ Live(r.row) /\ r.op # "logout"
    BY <1>2, <1>9 DEF OnItsWay
  <2>2. r.row \in Rows /\ row[r.row] \in SessionRows /\ ~row[r.row].revoked /\ j \in Tokens
    BY <1>0, <2>1, RowTypes DEF RowOf, Live
  <2> DEFINE y == [row[r.row] EXCEPT !.jti = j, !.idle = FALSE, !.expired = FALSE]
  <2>3. row'[r.row] = y
    BY <1>0, <1>9, <2>2 DEF Rotated
  <2>4. y \in SessionRows /\ y.jti = j /\ ~y.revoked /\ ~y.expired
    BY <2>2 DEF SessionRows
  <2> HIDE DEF y, Goal
  <2>5. row'[r.row] # None
    BY <2>3, <2>4, NoneAssumption
  <2> QED BY <1>8, <1>9, <2>1, <2>2, <2>3, <2>4, <2>5
<1>10. ASSUME NEW pc, NEW q, q = [r EXCEPT !.pc = pc]
       PROVE  /\ q.pc = pc /\ q.dev = r.dev /\ q.op = r.op /\ q.jti = r.jti /\ q.row = r.row
              /\ q.seen = r.seen /\ q.pair = r.pair
  BY <1>0, <1>10 DEF Requests
<1>11. CASE Prune(w)
  <2>1. req'[w] = [r EXCEPT !.pc = "create"] /\ r.pc = "prune"
    BY <1>11, GotoStep DEF Prune, At
  <2>2. req'[w].pc = "create" /\ req'[w].op = r.op /\ r.op # "logout" /\ req'[w] # None
    <3>1. [r EXCEPT !.pc = "create"] \in Requests
      BY <1>0, RequestType DEF PCs
    <3> QED BY <1>2, <1>10, <2>1, <3>1, NoneAssumption DEF OnItsWay
  <2> QED BY <2>2 DEF OnItsWay, Pending
<1>12. CASE Create(w)
  <2>1. PICK x \in Least(FreeRows), j \in Least(FreeTokens) :
          /\ row' = [row EXCEPT ![x] =
                       [jti |-> j, revoked |-> FALSE, idle |-> FALSE, expired |-> FALSE]]
          /\ Goto(w, [r EXCEPT !.pc = "respond", !.pair = [acc |-> r.gen, ref |-> j]])
    BY <1>12 DEF Create
  <2>2. x \in Rows /\ j \in Tokens /\ r.gen \in Nat /\ r.op # "logout"
    BY <1>0, <1>2, <1>12, RowTypes DEF OnItsWay, Create, At, Requests
  <2> DEFINE y == [jti |-> j, revoked |-> FALSE, idle |-> FALSE, expired |-> FALSE]
  <2>3. row'[x] = y /\ y \in SessionRows /\ y.jti = j /\ ~y.revoked /\ ~y.expired
    BY <1>0, <2>1, <2>2 DEF SessionRows
  <2> HIDE DEF y, Goal
  <2>4. row'[x] # None
    BY <2>3, NoneAssumption
  <2> QED BY <1>8, <2>1, <2>2, <2>3, <2>4
<1>13. CASE ReadRow(w)
  <2>1. r.pc = "row" /\ (Fail(w) \/ (UNCHANGED <<row, jar>> /\ req'[w] # None))
    <3>1. ASSUME NEW q \in Requests, Step(w, q) PROVE UNCHANGED <<row, jar>> /\ req'[w] # None
      BY <3>1, GotoStep, NoneAssumption DEF Step, stored
    <3>2. /\ [r EXCEPT !.pc = "list"] \in Requests
          /\ \A x \in Rows : /\ [r EXCEPT !.pc = "end", !.row = x] \in Requests
                             /\ [r EXCEPT !.pc = AfterRow(r.op), !.row = x] \in Requests
      BY <1>0, RequestType DEF PCs, AfterRow
    <3> QED BY <1>13, <3>1, <3>2 DEF ReadRow, At, RowOf
  <2>2. PICK x \in RowOf(r.jti) : Live(x)
    BY <1>3, <2>1
  <2>3. \/ Fail(w)
        \/ Step(w, [r EXCEPT !.pc = "end", !.row = x])
        \/ Step(w, [r EXCEPT !.pc = AfterRow(r.op), !.row = x])
    BY <1>4, <1>13, <2>2 DEF ReadRow
  <2>5. ASSUME Step(w, [r EXCEPT !.pc = "end", !.row = x]), req'[w] # None PROVE Goal
    <3>1. req'[w] = [r EXCEPT !.pc = "end", !.row = x]
      BY <2>5, GotoStep DEF Step
    <3>2. req'[w].pc = "end"
      BY <1>0, <3>1 DEF Requests
    <3> QED BY <2>5, <3>2 DEF OnItsWay, Pending
  <2>6. ASSUME Step(w, [r EXCEPT !.pc = AfterRow(r.op), !.row = x]), req'[w] # None,
               UNCHANGED <<row, jar>>
        PROVE  Goal
    <3>1. req'[w] = [r EXCEPT !.pc = AfterRow(r.op), !.row = x]
      BY <2>6, GotoStep DEF Step
    <3>2. /\ req'[w].pc = AfterRow(r.op) /\ req'[w].row = x /\ req'[w].dev = d
          /\ req'[w].op = r.op /\ req'[w].jti = r.jti
      BY <1>0, <3>1 DEF Requests
    <3>3. req'[w].pc \in {"own", "account", "touch", "rotate", "reissue"}
      BY <3>2 DEF AfterRow
    <3> HIDE DEF Goal
    <3> QED BY <1>3, <1>7, <2>1, <2>2, <2>6, <3>2, <3>3
  <2> HIDE DEF Goal
  <2> QED BY <1>6, <2>1, <2>3, <2>5, <2>6
<1>14. CASE ReadAccount(w)
  <2>1. CASE Step(w, [r EXCEPT !.pc = "rotate", !.gen = user.gen])
    <3>1. req'[w] = [r EXCEPT !.pc = "rotate", !.gen = user.gen] /\ UNCHANGED <<row, jar>>
      BY <2>1, GotoStep DEF Step, stored
    <3>2. [r EXCEPT !.pc = "rotate", !.gen = user.gen] \in Requests
      <4>1. user.gen \in Nat /\ "rotate" \in PCs
        BY DEF TypeOK, PCs
      <4> QED BY <1>0, <4>1, RequestType
    <3>3. /\ req'[w].pc = "rotate" /\ req'[w].row = r.row /\ req'[w].dev = d
          /\ req'[w].op = r.op /\ req'[w].jti = r.jti /\ req'[w] # None
      BY <1>0, <3>1, <3>2, NoneAssumption DEF Requests
    <3>4. r.pc = "account" /\ r.row \in RowOf(r.jti) /\ Live(r.row)
      BY <1>2, <1>14 DEF ReadAccount, At, OnItsWay
    <3> HIDE DEF Goal
    <3> QED BY <1>3, <1>7, <3>1, <3>3, <3>4
  <2> HIDE DEF Goal
  <2> QED BY <1>6, <1>14, <2>1 DEF ReadAccount, At
<1>15. CASE Touch(w)
  <2>1. r.pc = "touch" /\ r.row \in RowOf(r.jti) /\ Live(r.row) /\ jar[d].ref = r.jti
    BY <1>2, <1>3, <1>15 DEF Touch, At, OnItsWay
  <2>2. CASE row' = [row EXCEPT ![r.row].idle = FALSE] /\ Drop(w) /\ UNCHANGED jar
    <3>1. PICK x \in RowOf(r.jti) : Live(x) /\ x = r.row
      BY <2>1
    <3>2. x \in Rows /\ row[x] \in SessionRows /\ ~row[x].revoked /\ ~row[x].expired
      BY <1>0, <3>1 DEF RowOf, Live
    <3> DEFINE y == [row[x] EXCEPT !.idle = FALSE]
    <3>3. row'[x] = y
      BY <1>0, <2>2, <3>1, <3>2
    <3>4. y \in SessionRows /\ y.jti = row[x].jti /\ ~y.revoked /\ ~y.expired
      BY <3>2 DEF SessionRows
    <3> HIDE DEF y
    <3>5. row'[x] # None /\ row'[x].jti = row[x].jti /\ Live(x)'
      BY <3>3, <3>4, NoneAssumption DEF Live
    <3>6. ~Pending(w)'
      BY <2>2, GotoStep DEF Drop, Pending
    <3> HIDE DEF Goal
    <3> QED BY <1>5, <2>1, <2>2, <3>5, <3>6
  <2> HIDE DEF Goal
  <2> QED BY <1>6, <1>15, <2>1, <2>2 DEF Touch
<1>16. CASE Rotate(w)
  <2>1. r.pc = "rotate" /\ r.gen \in Nat
    BY <1>0, <1>16 DEF Rotate, At, Requests
  <2> HIDE DEF Goal
  <2> QED BY <1>6, <1>9, <1>16, <2>1 DEF Rotate
<1>17. CASE List(w)
  <2>1. r.pc = "list" /\ r.op \in {"others", "password"} /\ jar[d].ref = r.jti
    BY <1>2, <1>3, <1>17 DEF List, At, OnItsWay
  <2> DEFINE xs == Listed \ RowOf(r.jti)
  <2>2. Step(w, [r EXCEPT !.pc = "write", !.seen = xs])
    BY <1>17, <2>1 DEF List
  <2>3. req'[w] = [r EXCEPT !.pc = "write", !.seen = xs] /\ UNCHANGED <<row, jar>>
    BY <2>2, GotoStep DEF Step, stored
  <2>4. [r EXCEPT !.pc = "write", !.seen = xs] \in Requests
    <3>1. xs \in SUBSET Rows /\ "write" \in PCs
      BY DEF Listed, PCs
    <3> HIDE DEF xs
    <3> QED BY <1>0, <3>1, RequestType
  <2>5. /\ req'[w].pc = "write" /\ req'[w].dev = d /\ req'[w].op = r.op
        /\ req'[w].jti = r.jti /\ req'[w] # None /\ req'[w].seen = xs
    BY <1>0, <2>3, <2>4, NoneAssumption DEF Requests
  <2>6. RowOf(req[w].jti)' = RowOf(r.jti)
    BY <2>3, <2>5 DEF RowOf
  <2>7. Serves(d)'
    BY <1>3, <2>1, <2>3 DEF Serves, RowOf, Live
  <2> QED BY <2>1, <2>3, <2>5, <2>6, <2>7 DEF OnItsWay, Pending
<1>18. CASE WriteOthers(w)
  <2>1. r.pc = "write" /\ jar[d].ref = r.jti /\ r.op # "logout"
        /\ \A x \in RowOf(r.jti) : x \notin r.seen
    BY <1>2, <1>3, <1>18 DEF WriteOthers, At, OnItsWay
  <2>2. CASE row' = Revoked(r.seen) /\ Goto(w, [r EXCEPT !.pc = "own"]) /\ UNCHANGED jar
    <3>1. req'[w] = [r EXCEPT !.pc = "own"]
      BY <2>2, GotoStep
    <3>2. [r EXCEPT !.pc = "own"] \in Requests
      BY <1>0, RequestType DEF PCs
    <3>3. /\ req'[w].pc = "own" /\ req'[w].dev = d /\ req'[w].op = r.op
          /\ req'[w].jti = r.jti /\ req'[w] # None
      BY <1>10, <3>1, <3>2, NoneAssumption
    <3>4. PICK x \in RowOf(r.jti) : Live(x)
      BY <1>3, <2>1
    <3>5. row'[x] = row[x]
      BY <2>1, <2>2, <3>4 DEF Revoked, RowOf
    <3> HIDE DEF Goal
    <3> QED BY <1>7, <2>1, <2>2, <3>3, <3>4, <3>5
  <2> HIDE DEF Goal
  <2> QED BY <1>6, <1>18, <2>1, <2>2 DEF WriteOthers
<1>19. CASE ReadOwn(w)
  <2>1. r.pc = "own"
    BY <1>19 DEF ReadOwn, At
  <2>2. PICK x \in RowOf(r.jti) : Live(x)
    BY <1>3, <2>1
  <2>3. Step(w, [r EXCEPT !.pc = "reissue", !.row = x])
    BY <1>4, <1>19, <2>2 DEF ReadOwn
  <2>4. req'[w] = [r EXCEPT !.pc = "reissue", !.row = x] /\ UNCHANGED <<row, jar>>
    BY <2>3, GotoStep DEF Step, stored
  <2>5. [r EXCEPT !.pc = "reissue", !.row = x] \in Requests
    <3>1. x \in Rows /\ "reissue" \in PCs
      BY <2>2 DEF RowOf, PCs
    <3> QED BY <1>0, <3>1, RequestType
  <2>6. /\ req'[w].pc = "reissue" /\ req'[w].dev = d /\ req'[w].op = r.op
        /\ req'[w].jti = r.jti /\ req'[w] # None /\ req'[w].row = x
    BY <1>0, <2>4, <2>5, NoneAssumption DEF Requests
  <2> HIDE DEF Goal
  <2> QED BY <1>3, <1>7, <2>1, <2>2, <2>4, <2>6
<1>20. CASE Reissue(w)
  <2>1. r.pc = "reissue" /\ Bumped.gen \in Nat
    BY <1>20, RowTypes DEF Reissue, At
  <2>2. r.row # None
    BY <1>2, <2>1, SessionsAssumption DEF OnItsWay, RowOf
  <2> HIDE DEF Goal
  <2> QED BY <1>6, <1>9, <1>20, <2>1, <2>2 DEF Reissue
<1>21. CASE Respond(w)
  <2>1. r.op # "logout" /\ r.pair # None /\ \E x \in RowOf(r.pair.ref) : Live(x)
    BY <1>2, <1>21 DEF Respond, At, OnItsWay
  <2>2. jar'[d] = r.pair /\ UNCHANGED row /\ ~Pending(w)'
    BY <1>21, <2>1, GotoStep DEF Respond, TypeOK, stored, Drop, Pending
  <2> QED BY <2>1, <2>2 DEF Serves, RowOf, Live
<1>22. CASE End(w)
  BY <1>22 DEF End
<1>23. CASE Die(w)
  BY <1>23 DEF Die
<1>24. CASE Bump(w) \/ RevokeAll(w) \/ Void(w) \/ Mint(w) \/ Consume(w)
  BY <1>2, <1>24 DEF OnItsWay, At, Bump, RevokeAll, Void, Mint, Consume
<1> HIDE DEF Goal
<1> QED BY <1>11, <1>12, <1>13, <1>14, <1>15, <1>16, <1>17, <1>18, <1>19, <1>20, <1>21, <1>22,
           <1>23, <1>24 DEF Work

LEMMA ProvidedStep ==
  ASSUME TypeOK, OwnRows, Cookies, Provided, [Next]_vars
  PROVE  Provided'
<1> DEFINE Fine(d) ==
      /\ ~Busy(d)' /\ jar'[d].ref # None => Serves(d)'
      /\ \A w \in Workers : Pending(w)' /\ req'[w].dev = d =>
           /\ OnItsWay(w)'
           /\ \A v \in Workers : Pending(v)' /\ req'[v].dev = d => v = w
<1>1. (\A d \in Devices \ excused' : Fine(d)) => Provided'
  BY DEF Provided
<1>2. ASSUME NEW w \in Workers, Request(w), NEW d \in Devices \ excused' PROVE Fine(d)
  <2> DEFINE q == req'[w]
  <2>1. q \in Requests /\ Pending(w)' /\ UNCHANGED <<row, jar>>
    BY <1>2, RequestExcuses, RequestStep, NoneAssumption DEF Excusing, Pending
  <2>2. CASE d # q.dev
    <3>1. d \in Devices \ excused
      BY <1>2, <2>2, RequestExcuses DEF Excusing
    <3>2. \A v \in Workers : Pending(v)' /\ req'[v].dev = d =>
            /\ Pending(v) /\ req'[v].dev = req[v].dev /\ req'[v].op = req[v].op
            /\ req'[v].pc = req[v].pc /\ req'[v].jti = req[v].jti
            /\ req'[v].seen = req[v].seen /\ req'[v].row = req[v].row
            /\ req'[v].pair = req[v].pair
      BY <1>2, <2>2, RequestStep DEF Narrowed
    <3>3. Busy(d) => Busy(d)'
      BY <1>2, BeginSpares DEF Busy, Pending
    <3>4. \A j : Holds(d, j) /\ (Busy(d) \/ jar[d].ref = j) =>
            \A x \in RowOf(j) : Live(x) => x \in RowOf(j)' /\ Live(x)'
      BY <2>1 DEF RowOf, Live
    <3> QED BY <2>1, <3>1, <3>2, <3>3, <3>4, StillProvided
  <2>3. CASE d = q.dev
    <3>1. /\ ~Busy(d) /\ q.op # "logout"
          /\ \/ q.pc \in {"prune", "create"}
             \/ q.pc = "row" /\ d \notin excused /\ jar[d].ref # None
             \/ /\ q.pc = "list" /\ d \notin excused /\ jar[d].acc # None
                /\ q.op \in {"others", "password"}
      BY <1>2, <2>3, RequestExcuses DEF Excusing
    <3>2. Busy(d)'
      BY <2>1, <2>3 DEF Busy, Pending
    <3>3. \A v \in Workers : Pending(v)' /\ req'[v].dev = d => v = w
      BY <1>2, <3>1, RequestStep DEF Narrowed, Busy, Pending
    <3>4. CASE q.pc \in {"prune", "create"}
      BY <3>1, <3>2, <3>3, <3>4 DEF OnItsWay
    <3>5. CASE q.pc \notin {"prune", "create"}
      <4>1. jar[d].ref # None /\ d \notin excused
        BY <3>1, <3>5 DEF Cookies
      <4>2. Serves(d)
        BY <3>1, <4>1 DEF Provided
      <4>3. Serves(d)'
        BY <2>1, <4>2 DEF Serves, RowOf, Live
      <4>4. jar'[q.dev].ref = q.jti
        BY <1>2, <2>1, <2>3, RequestStep, SessionsAssumption DEF Begun
      <4>5. OnItsWay(w)'
        BY <2>3, <3>1, <3>5, <4>3, <4>4 DEF OnItsWay
      <4> QED BY <3>2, <3>3, <4>5
    <3> QED BY <3>4, <3>5
  <2> QED BY <2>2, <2>3
<1>3. ASSUME NEW w \in Workers, Work(w), NEW d \in Devices \ excused' PROVE Fine(d)
  <2>1. d \in Devices \ excused
    BY <1>3, ExcusesStay DEF TypeOK
  <2>2. Pending(w) /\ (Pending(w)' => req'[w].dev = req[w].dev)
    BY <1>3, WorkStep DEF Pending, Follows
  <2>3. \A v \in Workers \ {w} : req'[v] = req[v]
    BY <1>3, WorkStep
  <2>4. CASE req[w].dev = d
    <3>1. IF Pending(w)' THEN OnItsWay(w)' ELSE Serves(d)'
      BY <1>3, <2>4, OwnWork
    <3>2. \A v \in Workers : Pending(v) /\ req[v].dev = d => v = w
      BY <2>1, <2>2, <2>4 DEF Provided
    <3>3. \A v \in Workers : Pending(v)' /\ req'[v].dev = d => v = w
      BY <2>3, <3>2 DEF Pending
    <3>4. Pending(w)' => Busy(d)'
      BY <2>2, <2>4 DEF Busy, Pending
    <3> QED BY <3>1, <3>3, <3>4
  <2>5. CASE req[w].dev # d
    <3>1. jar'[d] = jar[d]
      BY <1>3, <2>5, JarStep DEF TypeOK
    <3>2. \A v \in Workers : Pending(v)' /\ req'[v].dev = d =>
            /\ Pending(v) /\ req'[v].dev = req[v].dev /\ req'[v].op = req[v].op
            /\ req'[v].pc = req[v].pc /\ req'[v].jti = req[v].jti
            /\ req'[v].seen = req[v].seen /\ req'[v].row = req[v].row
            /\ req'[v].pair = req[v].pair
      BY <2>2, <2>3, <2>5 DEF Pending
    <3>3. Busy(d) => Busy(d)'
      BY <2>3, <2>5 DEF Busy
    <3>4. ASSUME NEW j, Holds(d, j), NEW x \in RowOf(j), Live(x)
          PROVE  x \in RowOf(j)' /\ Live(x)'
      BY <1>3, <2>5, <3>4, Spared
    <3> QED BY <2>1, <3>1, <3>2, <3>3, <3>4, StillProvided
  <2> QED BY <2>4, <2>5
<1>4. ASSUME NEW r \in Rows, GetsIdle(r) \/ Expires(r), NEW d \in Devices \ excused'
      PROVE  Fine(d)
  <2>1. UNCHANGED <<jar, req>> /\ d \in Devices \ excused
    BY <1>4 DEF GetsIdle, Expires, history
  <2>2. ASSUME NEW j, Holds(d, j), Busy(d) \/ jar[d].ref = j, NEW x \in RowOf(j), Live(x)
        PROVE  x \in RowOf(j)' /\ Live(x)'
    BY <1>4, <2>2, SparedByTime
  <2>3. \A v \in Workers : Pending(v)' /\ req'[v].dev = d =>
          /\ Pending(v) /\ req'[v].dev = req[v].dev /\ req'[v].op = req[v].op
          /\ req'[v].pc = req[v].pc /\ req'[v].jti = req[v].jti
          /\ req'[v].seen = req[v].seen /\ req'[v].row = req[v].row
          /\ req'[v].pair = req[v].pair
    BY <2>1 DEF Pending
  <2>4. Busy(d) => Busy(d)'
    BY <2>1 DEF Busy
  <2> QED BY <2>1, <2>2, <2>3, <2>4, StillProvided
<1>5. CASE UNCHANGED vars
  BY <1>5 DEF Provided, vars, stored, history, Busy, Serves, RowOf, Live, OnItsWay, Pending
<1> HIDE DEF Fine
<1> QED BY <1>1, <1>2, <1>3, <1>4, <1>5 DEF Next

(* A device keeps its session until something ends it: its own logout, idle *)
(* time, expiry, a revocation by somebody else, a request that died, or two *)
(* requests of its own at once.                                             *)
THEOREM DevicesStaySignedIn == Spec => []SignedInUntilEnded
<1> DEFINE I == TypeOK /\ OwnRows /\ Cookies /\ Provided
<1>1. Init => I
  <2>1. ASSUME Init PROVE OwnRows /\ Cookies /\ Provided
    <3>1. \A w \in Workers : ~Pending(w)
      BY <2>1 DEF Init, Pending
    <3>2. \A d \in Devices : ~Busy(d)
      BY <2>1 DEF Init, Busy
    <3>3. ASSUME NEW d \in Devices
          PROVE  \/ jar[d].acc = None /\ jar[d].ref = None
                 \/ /\ user.active /\ d \in DOMAIN Seat
                    /\ jar[d].acc = 0 /\ jar[d].ref = Seat[d]
      BY <2>1 DEF Init, NoCookies
    <3>4. \A x \in Rows : row[x] # None => row[x].jti = x
      BY <2>1 DEF Init
    <3>5. \A d \in Devices : \A j : Holds(d, j) => d \in DOMAIN Seat /\ Seat[d] = j
      BY <3>1, <3>3 DEF Holds
    <3>6. OwnRows
      BY <3>1, <3>4, <3>5, SessionsAssumption DEF OwnRows
    <3>7. Cookies
      BY <3>1, <3>3, SessionsAssumption DEF Cookies
    <3>8. ASSUME NEW d \in Devices, jar[d].ref # None PROVE Serves(d)
      <4>1. user.active /\ d \in DOMAIN Seat /\ jar[d].ref = Seat[d] /\ Seat[d] \in Rows
        BY <3>3, <3>8, SessionsAssumption
      <4>2. row[Seat[d]] = [jti |-> Seat[d], revoked |-> FALSE, idle |-> FALSE, expired |-> FALSE]
        BY <2>1, <4>1 DEF Init, SeatOf
      <4>3. row[Seat[d]] \in SessionRows
        BY <4>1, <4>2, SessionsAssumption DEF SessionRows
      <4> QED BY <4>1, <4>2, <4>3, NoneAssumption DEF Serves, RowOf, Live
    <3>9. Provided
      BY <3>1, <3>8 DEF Provided
    <3> QED BY <3>6, <3>7, <3>9
  <2> QED BY <2>1, TypeInit
<1>2. I /\ [Next]_vars => I'
  <2>1. ASSUME I, [Next]_vars PROVE I'
    <3>1. TypeOK'
      BY <2>1, TypeStep
    <3> QED BY <2>1, <3>1, OwnRowsStep, CookiesStep, ProvidedStep
  <2> QED BY <2>1
<1>3. I => SignedInUntilEnded
  BY DEF Provided, SignedInUntilEnded
<1> QED BY <1>1, <1>2, <1>3, PTL DEF Spec
=============================================================================
