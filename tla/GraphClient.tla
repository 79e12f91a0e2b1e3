------------------------------ MODULE GraphClient ------------------------------
(***************************************************************************)
(* services/graph/client.py: one client of Microsoft Graph, which one      *)
(* coroutine uses for one call after the other (a sync, a group, a mail).  *)
(* A call gets a token, sends a request, and goes on to the next page or   *)
(* tries again.  Graph, the place tokens come from, the network and the    *)
(* directory behind them are outside and do what they like: they answer    *)
(* late, throttle, fail, lose an answer, and name as the next page         *)
(* whatever a broken or a false answer may name.  Time passes in minutes.  *)
(* Assumed of Graph: it answers 2xx, 4xx, 429 or 5xx, and a page has its   *)
(* "value".  The code takes a 3xx for a success, and a body without        *)
(* "value" for an empty page.                                              *)
(***************************************************************************)
EXTENDS FiniteSets, Integers

CONSTANTS
  People,       \* who can be in the directory; Graph lists them in this order
  PageSize,     \* people on a page
  None,
  Foreign,      \* a link to another host
  Cleartext,    \* a link to the same host without TLS
  MaxPages,     \* _MAX_PAGES
  MaxAttempts,  \* stop_after_attempt
  Margin,       \* minutes a token in use must still have
  Transit,      \* minutes until a request times out
  Lifetimes,    \* minutes a token is given for
  Waits,        \* minutes a Retry-After asks for
  MaxTime,      \* bound: the clock
  MaxCalls,     \* bound: calls
  MaxChanges    \* bound: people who join or leave

VARIABLES
  now,
  configured,  \* tenant, client and secret are all set
  token,       \* the token that is kept: when the client and when Graph holds it for over
  directory,
  call,        \* the call under way, or the last one with what it said
  calls, changes

vars == <<now, configured, token, directory, call, calls, changes>>

\* A page is named by the person it starts after.
Pages == People \union {0}
Elsewhere == {Foreign, Cleartext}
Links == Pages \union Elsewhere \union {None}

\* Users are handed on as the pages come, members are collected first.
Streamed == {"users"}
Collected == {"members"}
Paged == Streamed \union Collected
Ops == Paged \union {"mail", "check", "photo", "test"}

Calls ==
  [op : Ops, pc : {"token", "asking", "wire", "waiting", "done"},
   since : 0..MaxTime,  \* when the token was asked for, or the request sent
   until : Nat,         \* how long it sleeps before it goes on
   try : 1..MaxAttempts, link : Links, pages : 0..MaxPages,
   got : SUBSET People,
   steady : SUBSET People, seen : SUBSET People,  \* there all the time, there at some time
   posted : Nat,        \* mails Graph has accepted
   said : {"ok", "nothing", "GraphError", "error"} \union {None}]

GraphAssumption ==
  /\ People \subseteq Nat \ {0} /\ IsFiniteSet(People)
  /\ {None, Foreign, Cleartext} \intersect Nat = {} /\ None \notin {Foreign, Cleartext} \union Calls
  /\ PageSize \in Nat \ {0} /\ MaxPages \in Nat \ {0} /\ MaxAttempts \in Nat \ {0}
  /\ Margin \in Nat /\ Transit \in Nat /\ Transit < Margin
  /\ Lifetimes \subseteq Nat /\ Waits \subseteq Nat
  /\ \A life \in Lifetimes : Transit < life
  /\ MaxTime \in Nat /\ MaxCalls \in Nat /\ MaxChanges \in Nat

TypeOK ==
  /\ now \in 0..MaxTime /\ configured \in BOOLEAN
  /\ token \in [exp : Nat, good : Nat] \union {None}
  /\ directory \subseteq People
  /\ call \in Calls \union {None}
  /\ calls \in 0..MaxCalls /\ changes \in 0..MaxChanges

Init ==
  /\ now = 0 /\ configured \in BOOLEAN /\ token = None
  /\ directory = People /\ call = None /\ calls = 0 /\ changes = 0

-----------------------------------------------------------------------------
\* One call

At(pc) == call # None /\ call.pc = pc

Start(op) ==
  /\ call = None \/ At("done")
  /\ calls < MaxCalls
  /\ calls' = calls + 1
  /\ call' = [op |-> op, pc |-> "token", since |-> now, until |-> 0, try |-> 1, link |-> 0,
              pages |-> 0, got |-> {}, posted |-> 0, said |-> None,
              steady |-> IF op \in Paged THEN directory ELSE {},
              seen |-> IF op \in Paged THEN directory ELSE {}]
  /\ UNCHANGED <<now, configured, token, directory, changes>>

\* A list that is not finished is lost with its call.
Ended(c, answer) ==
  [c EXCEPT !.pc = "done", !.said = answer, !.since = 0, !.until = 0,
            !.got = IF c.op \in Collected /\ answer # "ok" THEN {} ELSE @]
Says(answer) == Ended(call, answer)

\* A photo, and the test of the connection, make nothing of a GraphError.
Raised(error) == IF call.op \in {"photo", "test"} /\ error = "GraphError" THEN "nothing" ELSE error

Fresh(t) == t # None /\ now < t.exp - Margin

Sent == IF call.op = "test" THEN Says("ok") ELSE [call EXCEPT !.pc = "wire", !.since = now]

\* _acquire_token: the one that is kept, or a new one, asked for in a thread of its own.
KeptToken ==
  /\ At("token") /\ Fresh(token)
  /\ call' = Sent
  /\ UNCHANGED <<now, configured, token, directory, calls, changes>>

AskForToken ==
  /\ At("token") /\ ~Fresh(token)
  /\ call' = IF configured THEN [call EXCEPT !.pc = "asking", !.since = now]
             ELSE Says(Raised("GraphError"))
  /\ UNCHANGED <<now, configured, token, directory, calls, changes>>

\* The client counts from before it asked, whoever gave the token from when it did.
TokenGranted(life) ==
  /\ At("asking")
  /\ token' = [exp |-> call.since + life, good |-> now + life]
  /\ call' = Sent
  /\ UNCHANGED <<now, configured, directory, calls, changes>>

\* An answer without a token is a GraphError, an exception in MSAL remains what it is.
TokenDenied ==
  /\ At("asking")
  /\ \E error \in {"GraphError", "error"} : call' = Says(Raised(error))
  /\ UNCHANGED <<now, configured, token, directory, calls, changes>>

-----------------------------------------------------------------------------
\* What comes back

\* The first PageSize people after the one the page is named by.
Listed(after) ==
  LET rest == {p \in directory : p > after}
  IN  {p \in rest : Cardinality({q \in rest : q < p}) < PageSize}

\* @odata.nextLink as Graph makes it, and what a broken answer may say instead.
NamedNext(after) ==
  LET page == Listed(after)
      more == \E p \in directory : p > after /\ p \notin page
  IN  (IF more THEN {p \in page : \A q \in page : q <= p} ELSE {None}) \union {0} \union Elsewhere

(* Mutant: the host alone is compared. *)
TrustedMutHost(link) == link # Foreign
Trusted(link) == link \notin Elsewhere

(* Mutant: a link that leads elsewhere ends the list. *)
TurnedMutSilent(link) ==
  LET read == [call EXCEPT !.got = @ \union Listed(call.link), !.pages = @ + 1, !.try = 1]
  IN  IF read.pages >= MaxPages \/ ~Trusted(link) \/ link = None
      THEN Ended(read, "ok")
      ELSE [read EXCEPT !.pc = "token", !.link = link]

\* One page: the cap comes first, then the link is looked at; one that leads elsewhere raises.
Turned(link) ==
  LET read == [call EXCEPT !.got = @ \union Listed(call.link), !.pages = @ + 1, !.try = 1]
  IN  IF read.pages >= MaxPages THEN Ended(read, "ok")
      ELSE IF ~Trusted(link) THEN Ended(read, "GraphError")
      ELSE IF link = None THEN Ended(read, "ok")
      ELSE [read EXCEPT !.pc = "token", !.link = link]

Page(link) ==
  /\ At("wire") /\ call.op \in Paged
  /\ link \in NamedNext(call.link)
  /\ call' = Turned(link)
  /\ UNCHANGED <<now, configured, token, directory, calls, changes>>

Accepted ==
  /\ At("wire") /\ call.op \in {"mail", "check", "photo"}
  /\ call' = [Says("ok") EXCEPT !.posted = IF call.op = "mail" THEN @ + 1 ELSE @]
  /\ UNCHANGED <<now, configured, token, directory, calls, changes>>

\* 4xx is for good, and so is a body that is no JSON.
Refused ==
  /\ At("wire")
  /\ \E error \in {"GraphError"} \union IF call.op \in Paged \union {"check"} THEN {"error"} ELSE {} :
       call' = Says(Raised(error))
  /\ UNCHANGED <<now, configured, token, directory, calls, changes>>

\* 429 sleeps before it raises; a Retry-After that is a date ends the call.
Throttled ==
  /\ At("wire") /\ call.op # "photo"
  /\ \/ \E wait \in Waits : call' = [call EXCEPT !.pc = "waiting", !.until = now + wait]
     \/ call' = Says("error")
  /\ UNCHANGED <<now, configured, token, directory, calls, changes>>

\* 5xx, or no answer at all: Graph may have done what it was asked.  The photo has no retry.
Lost ==
  /\ At("wire")
  /\ \E done \in IF call.op = "mail" THEN {0, 1} ELSE {0} :
       call' = IF call.op = "photo" THEN Says("nothing")
               ELSE [call EXCEPT !.pc = "waiting", !.until = now, !.posted = @ + done]
  /\ UNCHANGED <<now, configured, token, directory, calls, changes>>

\* Each attempt gets its token anew; the last error is raised as it is, not as a GraphError.
TryAgain ==
  /\ At("waiting") /\ now >= call.until
  /\ call' = IF call.try < MaxAttempts THEN [call EXCEPT !.pc = "token", !.try = @ + 1, !.until = 0]
             ELSE Says("error")
  /\ UNCHANGED <<now, configured, token, directory, calls, changes>>

-----------------------------------------------------------------------------
\* Outside

Tick ==
  /\ now < MaxTime
  /\ At("wire") => now < call.since + Transit
  /\ now' = now + 1
  /\ UNCHANGED <<configured, token, directory, call, calls, changes>>

JoinOrLeave(p) ==
  /\ changes < MaxChanges
  /\ changes' = changes + 1
  /\ directory' = IF p \in directory THEN directory \ {p} ELSE directory \union {p}
  /\ call' = IF call = None \/ At("done") \/ call.op \notin Paged THEN call
             ELSE [call EXCEPT !.steady = @ \intersect directory', !.seen = @ \union directory']
  /\ UNCHANGED <<now, configured, token, calls>>

Next ==
  \/ \E op \in Ops : Start(op)
  \/ KeptToken \/ AskForToken \/ TokenDenied
  \/ \E life \in Lifetimes : TokenGranted(life)
  \/ \E link \in Links : Page(link)
  \/ Accepted \/ Refused \/ Throttled \/ Lost \/ TryAgain
  \/ Tick
  \/ \E p \in People : JoinOrLeave(p)

Spec == Init /\ [][Next]_vars

-----------------------------------------------------------------------------
\* Properties

(* A token is only shown to Graph, over TLS, and while it is good: whatever *)
(* an answer named as the next page, however long the sleep between two     *)
(* attempts was and however slow the request is (_next_link, the two        *)
(* minutes of _acquire_token, one token per attempt in _request).           *)
TokenInGoodHands ==
  At("wire") => call.link \notin Elsewhere /\ now < token.good

(* What a call says is true.  A list that ends normally below the cap holds *)
(* everybody who was there all the time, and no list holds anybody who      *)
(* never was, though pages were lost, repeated or named twice and people    *)
(* came and went between them; a mail said to be sent was accepted, and no  *)
(* mail is accepted more often than it is tried.                            *)
AnswersAreTrue ==
  At("done") =>
    /\ call.op \in Paged /\ call.said = "ok" /\ call.pages < MaxPages =>
         call.steady \subseteq call.got
    /\ call.got \subseteq call.seen
    /\ call.op = "mail" /\ call.said = "ok" => call.posted > 0
    /\ call.posted <= MaxAttempts
=============================================================================
