------------------------------- MODULE Sessions -------------------------------
(***************************************************************************)
(* The sessions of one account.  A session is a row of user_session, which *)
(* knows the one refresh token that is good for it, and a browser holds    *)
(* that token next to an access token.  An access token is good as long as *)
(* the account is active and its token_generation is the one the token was *)
(* issued with, so ending a session takes two writes: to its row, and to   *)
(* the generation, which takes the access token of every browser.          *)
(*                                                                         *)
(* A request is one worker and one database session (READ COMMITTED,       *)
(* expire_on_commit off): what it has read it keeps, and it writes the     *)
(* columns it changed by primary key.  An UPDATE through the ORM that      *)
(* finds its row gone fails the request (StaleDataError).  A request that  *)
(* raises leaves the browser's cookies alone: what it put on the response  *)
(* is dropped with it.                                                     *)
(*                                                                         *)
(* Other accounts have other rows and another generation, and the second   *)
(* factor, the count of failed attempts and the active tenant are left     *)
(* out.                                                                    *)
(***************************************************************************)
EXTENDS FiniteSets, Integers

CONSTANTS
  Devices,      \* browsers the account uses
  Workers,      \* requests under way at the same time
  Rows,         \* ids of user_session rows that exist or are referred to
  Tokens,       \* refresh tokens that are held, stored or under way
  Links,        \* invitation and reset links ever issued
  None,
  Seat,         \* row and token of the devices that are signed in at the start
  MaxRequests,  \* bound: requests ever made
  MaxFaults,    \* bound: requests that die half way
  MaxAgeing     \* bound: sessions that become idle or expire

ASSUME SessionsAssumption ==
  /\ Rows \subseteq Nat /\ Tokens \subseteq Nat /\ Links \subseteq Nat
  /\ None \notin Devices \union Nat
  /\ DOMAIN Seat \subseteq Devices /\ 0 \in Links
  /\ \A d \in DOMAIN Seat : Seat[d] \in Rows \intersect Tokens
  /\ \A d, e \in DOMAIN Seat : Seat[d] = Seat[e] => d = e
  /\ MaxRequests \in Nat /\ MaxFaults \in Nat /\ MaxAgeing \in Nat

VARIABLES
  user,      \* app_user: token_generation and is_active
  row,       \* user_session by id
  link,      \* user_token by id
  jar,       \* the cookies of each browser
  req,       \* what each worker is at
  spent,     \* what the bounds count
  cut,       \* history: devices a revocation has signed out
  excused    \* history: devices that may lose their session

stored  == <<user, row, link>>
history == <<cut, excused>>
vars == <<stored, jar, req, spent, history>>

Pairs == [acc : Nat, ref : Tokens]
SessionRows == [jti : Tokens, revoked : BOOLEAN, idle : BOOLEAN, expired : BOOLEAN]

Ops == {"login", "refresh", "activity", "switch", "logout", "others", "password",
        "issue", "invite", "reset", "none"}
PCs == {"prune", "create", "row", "account", "touch", "rotate", "end", "bump", "list",
        "write", "own", "reissue", "revoke", "void", "mint", "consume", "respond"}

\* What a request has read: the generation, a row, the rows to revoke, a link; the
\* refresh token it came with and the pair it will answer with; and the devices that
\* have been at rest since it began.
Requests ==
  [op : Ops, dev : Devices \union {None}, pc : PCs, gen : Nat,
   row : Rows \union {None}, seen : SUBSET Rows, link : Links \union {None},
   jti : Tokens \union {None}, pair : Pairs \union {None}, quiet : SUBSET Devices]

\* Nothing is not a row, a request or an answer.
ASSUME NoneAssumption == None \notin SessionRows \union Requests \union Pairs

\* A request that has not read anything yet.
Fresh(op, d) ==
  [op |-> op, dev |-> d, pc |-> "row", gen |-> 0, row |-> None, seen |-> {},
   link |-> None, jti |-> IF d = None THEN None ELSE jar[d].ref, pair |-> None,
   quiet |-> {}]

TypeOK ==
  /\ user \in [gen : Nat, active : BOOLEAN]
  /\ row \in [Rows -> SessionRows \union {None}]
  /\ link \in [Links -> [purpose : {"invite", "reset", "none"},
                         consumed : BOOLEAN, uses : Nat]]
  /\ jar \in [Devices -> [acc : Nat \union {None}, ref : Tokens \union {None}]]
  /\ req \in [Workers -> Requests \union {None}]
  /\ spent \in [requests : Nat, faults : Nat, ageing : Nat]
  /\ cut \subseteq Devices /\ excused \subseteq Devices

-----------------------------------------------------------------------------
(* Reading                                                                 *)

Live(r) == row[r] # None /\ ~row[r].revoked /\ ~row[r].expired

\* get_session_by_jti.
RowOf(j) == {r \in Rows : row[r] # None /\ row[r].jti = j}

\* A list that leaves out the sessions nobody has used for a while.
ListedInUse == {r \in Rows : Live(r) /\ ~row[r].idle}

\* list_sessions: what a revocation acts on.
Listed == {r \in Rows : Live(r)}

\* get_current_user.
Accepts(acc) == user.active /\ acc = user.gen

\* A serial id and a random jti are new; the least name nobody refers to stands for one.
Least(names) == {x \in names : \A y \in names : x <= y}
FreeRows ==
  {r \in Rows : row[r] = None /\
     \A w \in Workers : req[w] # None => r # req[w].row /\ r \notin req[w].seen}
FreeTokens ==
  {j \in Tokens : RowOf(j) = {} /\ (\A d \in Devices : jar[d].ref # j) /\
     \A w \in Workers : req[w] # None =>
       j # req[w].jti /\ (req[w].pair # None => req[w].pair.ref # j)}

Busy(d) == \E w \in Workers : req[w] # None /\ req[w].dev = d

At(w, pc) == req[w] # None /\ req[w].pc = pc

\* bump_token_generation holds the account's row until its commit, and so does a
\* change of password between its two queries.
Locked(w) ==
  \E v \in Workers \ {w} :
    At(v, "reissue") \/ (At(v, "write") /\ req[v].op = "password")

-----------------------------------------------------------------------------
(* Requests begin, move on and end                                         *)

\* Every revocation under way knows the devices that have been at rest since it began.
Begin(w, r) ==
  /\ req[w] = None /\ spent.requests < MaxRequests
  /\ spent' = [spent EXCEPT !.requests = @ + 1]
  /\ req' = [v \in Workers |->
               CASE v = w -> [r EXCEPT !.quiet = {d \in Devices : ~Busy(d)} \ {r.dev}]
                 [] v # w /\ req[v] = None -> None
                 [] OTHER -> [req[v] EXCEPT !.quiet = @ \ {r.dev}]]

\* Two requests of one device rotate the same cookie: neither is promised its session.
BeginAt(w, r) ==
  /\ Begin(w, r)
  /\ excused' = excused \union {d \in Devices : d = r.dev /\ Busy(d)}
  /\ UNCHANGED <<stored, jar, cut>>

Goto(w, r) == req' = [req EXCEPT ![w] = r]
Drop(w) == Goto(w, None)

\* A read, or a write that failed: the request ends in an error or goes on.
Step(w, r) == Goto(w, r) /\ UNCHANGED <<stored, jar, spent, history>>
Fail(w) == Step(w, None)

\* Cookies reach the browser with the answer.
Respond(w) ==
  LET r == req[w] IN
  /\ At(w, "respond") /\ Drop(w)
  /\ jar' = CASE r.op = "logout" -> [jar EXCEPT ![r.dev] = [acc |-> None, ref |-> None]]
              [] r.op # "logout" /\ r.pair # None -> [jar EXCEPT ![r.dev] = r.pair]
              [] OTHER -> jar
  /\ UNCHANGED <<stored, spent, history>>

-----------------------------------------------------------------------------
(* Signing in                                                              *)

\* login with the password of this moment reads the account's row; the callback of the
\* SSO login does the same and does not prune.
Login(w, d) ==
  /\ user.active
  /\ \E pc \in {"prune", "create"} :
       Begin(w, [Fresh("login", d) EXCEPT !.pc = pc, !.gen = user.gen])
  /\ cut' = cut \ {d}
  /\ excused' = IF Busy(d) THEN excused \union {d} ELSE excused \ {d}
  /\ UNCHANGED <<stored, jar>>

\* prune_sessions
Prune(w) ==
  /\ At(w, "prune")
  /\ Goto(w, [req[w] EXCEPT !.pc = "create"])
  /\ row' = [r \in Rows |-> IF Live(r) THEN row[r] ELSE None]
  /\ UNCHANGED <<user, link, jar, spent, history>>

\* create_session, with the generation read before the password was checked; oidc_callback
\* does the same.
Create(w) ==
  /\ At(w, "create")
  /\ \E r \in Least(FreeRows), j \in Least(FreeTokens) :
       /\ row' = [row EXCEPT ![r] =
                    [jti |-> j, revoked |-> FALSE, idle |-> FALSE, expired |-> FALSE]]
       /\ Goto(w, [req[w] EXCEPT !.pc = "respond", !.pair = [acc |-> req[w].gen, ref |-> j]])
  /\ UNCHANGED <<user, link, jar, spent, history>>

-----------------------------------------------------------------------------
(* Keeping a session: refresh, activity and switch_tenant                  *)

Refresh(w, d) == jar[d].ref # None /\ BeginAt(w, Fresh("refresh", d))
Activity(w, d) == jar[d].ref # None /\ BeginAt(w, Fresh("activity", d))
SwitchTenant(w, d) ==
  /\ Accepts(jar[d].acc) /\ jar[d].ref # None
  /\ BeginAt(w, [Fresh("switch", d) EXCEPT !.gen = user.gen])

AfterRow(op) == CASE op = "refresh" -> "account" [] op = "activity" -> "touch"
                  [] OTHER -> "rotate"

ReadRow(w) ==
  LET r == req[w] IN
  /\ At(w, "row")
  /\ \/ RowOf(r.jti) = {} /\ Fail(w)
     \/ \E x \in RowOf(r.jti) :
          \/ ~Live(x) /\ r.op # "refresh" /\ Fail(w)
          \/ ~Live(x) /\ r.op = "refresh" /\ Step(w, [r EXCEPT !.pc = "list"])
          \/ Live(x) /\ row[x].idle /\ Step(w, [r EXCEPT !.pc = "end", !.row = x])
          \/ Live(x) /\ ~row[x].idle
               /\ Step(w, [r EXCEPT !.pc = AfterRow(r.op), !.row = x])

\* refresh reads the account in a query of its own.
ReadAccount(w) ==
  /\ At(w, "account")
  /\ IF user.active THEN Step(w, [req[w] EXCEPT !.pc = "rotate", !.gen = user.gen])
     ELSE Fail(w)

Touch(w) ==
  /\ At(w, "touch")
  /\ IF row[req[w].row] = None THEN Fail(w)
     ELSE /\ row' = [row EXCEPT ![req[w].row].idle = FALSE]
          /\ Drop(w) /\ UNCHANGED <<user, link, jar, spent, history>>

\* A rotation that writes back all of the row it has read.
RotatedWhole(r, j) ==
  [row EXCEPT ![r] = [jti |-> j, revoked |-> FALSE, idle |-> FALSE, expired |-> FALSE]]

\* The same row gets another token; the column revoked is not written.
Rotated(r, j) == [row EXCEPT ![r].jti = j, ![r].idle = FALSE, ![r].expired = FALSE]

Rotate(w) ==
  LET r == req[w] IN
  /\ At(w, "rotate")
  /\ \/ row[r.row] = None /\ Fail(w)
     \/ /\ row[r.row] # None
        /\ \E j \in Least(FreeTokens) :
             /\ row' = Rotated(r.row, j)
             /\ Goto(w, [r EXCEPT !.pc = "respond", !.pair = [acc |-> r.gen, ref |-> j]])
        /\ UNCHANGED <<user, link, jar, spent, history>>

-----------------------------------------------------------------------------
(* Ending one session: logout and _end_if_idle                             *)

Logout(w, d) ==
  /\ jar[d].ref # None
  /\ Begin(w, [Fresh("logout", d) EXCEPT !.pc = "end"])
  /\ excused' = excused \union {d}
  /\ UNCHANGED <<stored, jar, cut>>

\* delete_session_by_jti commits before the generation is touched.
End(w) ==
  /\ At(w, "end")
  /\ row' = [r \in Rows |-> IF r \in RowOf(req[w].jti) THEN None ELSE row[r]]
  /\ Goto(w, [req[w] EXCEPT !.pc = "bump"])
  /\ excused' = excused \union ({req[w].dev} \intersect Devices)
  /\ UNCHANGED <<user, link, jar, spent, cut>>

\* A generation that goes down.
BumpedDown == [user EXCEPT !.gen = @ - 1]

Bumped == [user EXCEPT !.gen = @ + 1]

Bump(w) ==
  /\ At(w, "bump") /\ ~Locked(w)
  /\ user' = Bumped
  /\ IF req[w].op = "logout" THEN Goto(w, [req[w] EXCEPT !.pc = "respond"]) ELSE Drop(w)
  /\ UNCHANGED <<row, link, jar, spent, history>>

-----------------------------------------------------------------------------
(* Ending the others: revoke_others, change_password and revoke_all        *)

\* revoke_other_sessions and change_password, the current password being right.
RevokeOthers(w, d) ==
  /\ Accepts(jar[d].acc)
  /\ \E op \in {"others", "password"} : BeginAt(w, [Fresh(op, d) EXCEPT !.pc = "list"])

\* revoke_others without the token it should keep.
ListAll(w) ==
  LET r == req[w] IN
  /\ At(w, "list")
  /\ Step(w, [r EXCEPT !.pc = IF r.op \in {"others", "password"} THEN "write" ELSE "revoke",
                       !.seen = Listed])

\* A caller of revoke_others keeps the row whose token it presented.  The query also
\* writes the new password, which waits for the account's row.
List(w) ==
  LET r == req[w]
      keeps == r.op \in {"others", "password"} IN
  /\ At(w, "list")
  /\ r.op = "password" => ~Locked(w)
  /\ Step(w, [r EXCEPT
       !.pc = IF keeps THEN "write" ELSE "revoke",
       !.seen = IF keeps THEN Listed \ RowOf(r.jti) ELSE Listed])

Revoked(rs) == [r \in Rows |-> IF r \in rs THEN [row[r] EXCEPT !.revoked = TRUE] ELSE row[r]]
SeenGone(w) == \E r \in req[w].seen : row[r] = None

\* revoke_others commits, the new password with it.
WriteOthers(w) ==
  LET r == req[w] IN
  /\ At(w, "write")
  /\ IF SeenGone(w) THEN Fail(w)
     ELSE /\ row' = Revoked(r.seen)
          /\ Goto(w, [r EXCEPT !.pc = "own"])
          /\ excused' = excused \union (Devices \ {r.dev})
          /\ UNCHANGED <<user, link, jar, spent, cut>>

\* The generation goes up, uncommitted, and the caller's own row is looked up.
ReadOwn(w) ==
  LET own == RowOf(req[w].jti) IN
  /\ At(w, "own") /\ ~Locked(w)
  /\ \/ own = {} /\ Step(w, [req[w] EXCEPT !.pc = "reissue"])
     \/ \E r \in own : Step(w, [req[w] EXCEPT !.pc = "reissue", !.row = r])

\* The commit of revoke_other_sessions and change_password.
Reissue(w) ==
  LET r == req[w] IN
  /\ At(w, "reissue")
  /\ \/ r.row # None /\ row[r.row] = None /\ Fail(w)
     \/ /\ \/ r.row = None /\ row' = row /\ Goto(w, [r EXCEPT !.pc = "respond"])
           \/ /\ r.row # None /\ row[r.row] # None
              /\ \E j \in Least(FreeTokens) :
                   /\ row' = Rotated(r.row, j)
                   /\ Goto(w, [r EXCEPT !.pc = "respond",
                                       !.pair = [acc |-> Bumped.gen, ref |-> j]])
        /\ user' = Bumped
        /\ cut' = cut \union r.quiet
        /\ UNCHANGED <<link, jar, spent, excused>>

\* revoke_all: the rows and the generation in one transaction.
RevokeAll(w) ==
  /\ At(w, "revoke") /\ ~Locked(w)
  /\ IF SeenGone(w) THEN Fail(w)
     ELSE /\ user' = Bumped
          /\ row' = Revoked(req[w].seen)
          /\ cut' = cut \union req[w].quiet
          /\ excused' = Devices
          /\ Drop(w) /\ UNCHANGED <<link, jar, spent>>

-----------------------------------------------------------------------------
(* Links                                                                   *)

Unissued == {l \in Links : link[l].purpose = "none"}
Usable(l) == link[l].purpose # "none" /\ ~link[l].consumed

\* send_reset: every older reset link is consumed, then a new one is made.
SendReset(w) ==
  /\ Cardinality({v \in Workers : req[v] # None /\ req[v].op = "issue"}) < Cardinality(Unissued)
  /\ BeginAt(w, [Fresh("issue", None) EXCEPT !.pc = "void"])

Void(w) ==
  /\ At(w, "void")
  /\ link' = [l \in Links |-> IF link[l].purpose = "reset" /\ Usable(l)
                               THEN [link[l] EXCEPT !.consumed = TRUE] ELSE link[l]]
  /\ Goto(w, [req[w] EXCEPT !.pc = "mint"])
  /\ UNCHANGED <<user, row, jar, spent, history>>

Mint(w) ==
  /\ At(w, "mint")
  /\ \E l \in Least(Unissued) : link' = [link EXCEPT ![l].purpose = "reset"]
  /\ Drop(w) /\ UNCHANGED <<user, row, jar, spent, history>>

\* accept_token and reset_token look the link up and check the rest of the request.
Redeem(w, l) ==
  Usable(l) /\ BeginAt(w, [Fresh(link[l].purpose, None) EXCEPT !.pc = "consume", !.link = l])

\* consume as an assignment to the row that was read.
ConsumeRead(w) ==
  LET r == req[w] IN
  /\ At(w, "consume") /\ ~Locked(w)
  /\ link' = [link EXCEPT ![r.link].consumed = TRUE, ![r.link].uses = @ + 1]
  /\ user' = [user EXCEPT !.active = @ \/ r.op = "invite"]
  /\ IF r.op = "invite" THEN Drop(w) ELSE Goto(w, [r EXCEPT !.pc = "list"])
  /\ UNCHANGED <<row, jar, spent, history>>

\* consume: an UPDATE that finds a link only once; it commits the password as well.
Consume(w) ==
  LET r == req[w] IN
  /\ At(w, "consume") /\ ~Locked(w)
  /\ IF link[r.link].consumed THEN Fail(w)
     ELSE /\ link' = [link EXCEPT ![r.link].consumed = TRUE, ![r.link].uses = @ + 1]
          /\ user' = [user EXCEPT !.active = @ \/ r.op = "invite"]
          /\ IF r.op = "invite" THEN Drop(w) ELSE Goto(w, [r EXCEPT !.pc = "list"])
          /\ UNCHANGED <<row, jar, spent, history>>

-----------------------------------------------------------------------------
(* The world                                                               *)

Holders(r) == {d \in Devices : Busy(d) \/ jar[d].ref = row[r].jti}

\* Nothing happens in a session for too long, or its refresh token runs out.
GetsIdle(r) ==
  /\ Live(r) /\ ~row[r].idle /\ spent.ageing < MaxAgeing
  /\ spent' = [spent EXCEPT !.ageing = @ + 1]
  /\ row' = [row EXCEPT ![r].idle = TRUE]
  /\ UNCHANGED <<user, link, jar, req, history>>

Expires(r) ==
  /\ Live(r) /\ spent.ageing < MaxAgeing
  /\ spent' = [spent EXCEPT !.ageing = @ + 1]
  /\ row' = [row EXCEPT ![r].expired = TRUE]
  /\ excused' = excused \union Holders(r)
  /\ UNCHANGED <<user, link, jar, req, cut>>

\* A crash, a lost connection, the loser of a deadlock, or an answer that never arrives.
Die(w) ==
  /\ req[w] # None /\ spent.faults < MaxFaults
  /\ spent' = [spent EXCEPT !.faults = @ + 1]
  /\ Drop(w)
  /\ excused' = excused \union ({req[w].dev} \intersect Devices)
  /\ UNCHANGED <<stored, jar, cut>>

-----------------------------------------------------------------------------
NoLink == [purpose |-> "none", consumed |-> FALSE, uses |-> 0]
NoCookies == [acc |-> None, ref |-> None]
SeatOf(r) == {d \in DOMAIN Seat : Seat[d] = r}

\* An account in use, or one that has been invited and has nothing yet.
Init ==
  /\ user \in [gen : {0}, active : BOOLEAN]
  /\ row = [r \in Rows |->
              IF user.active /\ SeatOf(r) # {}
                THEN [jti |-> r, revoked |-> FALSE, idle |-> FALSE, expired |-> FALSE]
                ELSE None]
  /\ jar = [d \in Devices |-> IF user.active /\ d \in DOMAIN Seat
                                THEN [acc |-> 0, ref |-> Seat[d]] ELSE NoCookies]
  /\ link = [l \in Links |-> IF l = 0 /\ ~user.active
                               THEN [NoLink EXCEPT !.purpose = "invite"] ELSE NoLink]
  /\ req = [w \in Workers |-> None]
  /\ spent = [requests |-> 0, faults |-> 0, ageing |-> 0]
  /\ cut = {} /\ excused = {}

Request(w) ==
  \/ \E d \in Devices : \/ Login(w, d) \/ Refresh(w, d) \/ Activity(w, d)
                        \/ SwitchTenant(w, d) \/ Logout(w, d) \/ RevokeOthers(w, d)
  \/ SendReset(w)
  \/ \E l \in Links : Redeem(w, l)

Work(w) ==
  \/ Prune(w) \/ Create(w) \/ ReadRow(w) \/ ReadAccount(w) \/ Touch(w) \/ Rotate(w)
  \/ End(w) \/ Bump(w) \/ List(w) \/ WriteOthers(w) \/ ReadOwn(w) \/ Reissue(w)
  \/ RevokeAll(w) \/ Void(w) \/ Mint(w) \/ Consume(w) \/ Respond(w) \/ Die(w)

Next ==
  \/ \E w \in Workers : Request(w) \/ Work(w)
  \/ \E r \in Rows : GetsIdle(r) \/ Expires(r)

Spec == Init /\ [][Next]_vars

-----------------------------------------------------------------------------
(* Properties                                                              *)

Serves(d) == \E r \in RowOf(jar[d].ref) : Live(r)

(* A device that was at rest while the others were revoked, by a change of *)
(* password, a reset link or the session page, is out until it signs in    *)
(* again: neither of its tokens is good (auth.py:827-832, 911-914).        *)
RevokedStayOut == \A d \in cut : ~Accepts(jar[d].acc) /\ ~Serves(d)

(* Whatever refresh, switch_tenant, activity or another revocation has     *)
(* read beforehand, none of them brings a revoked session back.            *)
RevokedIsFinal ==
  [][\A r \in Rows :
       row[r] # None /\ row[r].revoked /\ row'[r] # None => row'[r].revoked]_vars

(* A device keeps its session until something ends it: its own logout, idle *)
(* time, expiry, a revocation by somebody else, a request that died, or two *)
(* requests of its own at once.  Rotation, a change of password made on it  *)
(* and everything other devices do to their own sessions leave it alone.    *)
SignedInUntilEnded ==
  \A d \in Devices \ excused : jar[d].ref # None /\ ~Busy(d) => Serves(d)

(* A link that was used, or replaced by a newer one, is not used again,    *)
(* whoever had looked it up before (user_token_repo.py:60-74).             *)
LinkWorksOnce ==
  [][\A l \in Links : link'[l].uses > link[l].uses => ~link[l].consumed]_vars
=============================================================================
