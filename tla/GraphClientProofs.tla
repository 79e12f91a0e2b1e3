-------------------------- MODULE GraphClientProofs --------------------------
(***************************************************************************)
(* Proofs about GraphClient: for every directory, page size, cap, number   *)
(* of attempts, lifetime of a token and wait that meets GraphAssumption,   *)
(* which each of them names.                                               *)
(***************************************************************************)
EXTENDS GraphClient, FiniteSetTheorems, TLAPS

-----------------------------------------------------------------------------
(* The invariant                                                           *)

UnderWay == call # None /\ call.pc # "done"

(* The token that is kept is good for longer than the client thinks.       *)
TokenKept == token # None => token.exp <= token.good

(* A call looks at no link to elsewhere, and a request is out for less     *)
(* time than its token has.                                                *)
Shown ==
  /\ call # None => call.link \notin Elsewhere
  /\ UnderWay => call.link # None
  /\ At("asking") => call.since <= now
  /\ At("wire") => /\ token.good \in Nat
                   /\ call.since <= now /\ now <= call.since + Transit
                   /\ call.since + Transit < token.good

(* A list under way holds everybody up to its link who was there all the   *)
(* time; a finished one says what is true.                                 *)
Read ==
  call # None =>
    /\ call.got \subseteq call.seen
    /\ UnderWay => call.pages < MaxPages
    /\ UnderWay /\ call.op \in Paged =>
         /\ call.steady \subseteq directory /\ directory \subseteq call.seen
         /\ \A p \in call.steady : p <= call.link => p \in call.got
    /\ call.pc = "done" /\ call.op \in Paged /\ call.said = "ok" /\ call.pages < MaxPages =>
         call.steady \subseteq call.got

(* A mail is accepted once per attempt at the most.                        *)
Posted ==
  call # None =>
    /\ call.op # "mail" => call.posted = 0
    /\ call.posted <= call.try
    /\ call.pc \in {"token", "asking", "wire"} => call.posted < call.try
    /\ call.pc = "done" /\ call.op = "mail" /\ call.said = "ok" => call.posted > 0

Inv == TypeOK /\ TokenKept /\ Shown /\ Read /\ Posted

LEMMA InvInit == ASSUME GraphAssumption, Init PROVE Inv
<1>1. TypeOK
  BY DEF GraphAssumption, Init, TypeOK
<1>2. TokenKept /\ Shown /\ Read /\ Posted
  BY DEF Init, TokenKept, Shown, Read, Posted, At, UnderWay
<1> QED BY <1>1, <1>2 DEF Inv

-----------------------------------------------------------------------------
(* Pages                                                                   *)

(* A page leaves nobody out before the last one on it.                     *)
LEMMA PageIsWhole ==
  ASSUME GraphAssumption, directory \subseteq People, NEW after \in Nat,
         NEW p \in Listed(after), NEW q \in directory, after < q, q <= p
  PROVE  q \in Listed(after)
<1> DEFINE rest == {x \in directory : x > after}
           Before(x) == {y \in rest : y < x}
<1>1. /\ p \in rest /\ q \in rest /\ p \in Nat /\ q \in Nat /\ PageSize \in Nat
      /\ Cardinality(Before(p)) < PageSize
      /\ IsFiniteSet(People) /\ rest \subseteq People /\ \A y \in rest : y \in Nat
  BY DEF GraphAssumption, Listed
<1>2. IsFiniteSet(Before(p)) /\ Before(q) \subseteq Before(p)
  <2>1. Before(p) \in SUBSET People
    BY <1>1
  <2>2. ASSUME NEW y \in Before(q) PROVE y \in Before(p)
    BY <1>1
  <2> QED BY <1>1, <2>1, <2>2, FS_Subset
<1>3. /\ Cardinality(Before(q)) <= Cardinality(Before(p))
      /\ Cardinality(Before(q)) \in Nat /\ Cardinality(Before(p)) \in Nat
  BY <1>2, FS_Subset, FS_CardinalityType
<1>4. Cardinality(Before(q)) < PageSize
  BY <1>1, <1>3
<1> QED BY <1>1, <1>4 DEF Listed

-----------------------------------------------------------------------------
(* Answers                                                                 *)

Answers == {"ok", "nothing", "GraphError", "error"}

LEMMA EndedCall ==
  ASSUME GraphAssumption, NEW c \in Calls, NEW answer \in Answers
  PROVE  LET e == Ended(c, answer) IN
         /\ e \in Calls /\ e.pc = "done" /\ e.said = answer
         /\ e.op = c.op /\ e.link = c.link /\ e.pages = c.pages /\ e.try = c.try
         /\ e.steady = c.steady /\ e.seen = c.seen /\ e.posted = c.posted
         /\ e.got \subseteq c.got /\ (answer = "ok" => e.got = c.got)
<1>1. 0 \in 0..MaxTime /\ 0 \in Nat
  BY DEF GraphAssumption
<1> QED BY <1>1 DEF Ended, Calls, Answers

(* A call that ends otherwise than with a page, unchanged but for its end  *)
(* and, perhaps, one mail more that was accepted.                          *)
LEMMA SaysInv ==
  ASSUME GraphAssumption, Inv, UnderWay, NEW answer \in Answers,
         answer = "ok" => call.op \notin Paged \union {"mail"},
         call' = Says(answer), UNCHANGED <<now, configured, directory, calls, changes>>,
         token' \in [exp : Nat, good : Nat] \union {None}, TokenKept'
  PROVE  Inv'
<1>1. call \in Calls /\ call # None
  BY DEF Inv, TypeOK, UnderWay
<1>2. /\ call' \in Calls /\ call'.pc = "done" /\ call'.said = answer
      /\ call'.op = call.op /\ call'.link = call.link /\ call'.pages = call.pages
      /\ call'.try = call.try /\ call'.steady = call.steady /\ call'.seen = call.seen
      /\ call'.posted = call.posted /\ call'.got \subseteq call.got
  BY <1>1, EndedCall DEF Says
<1>3. TypeOK'
  BY <1>2 DEF Inv, TypeOK
<1>4. TokenKept' /\ Shown'
  BY <1>1, <1>2 DEF Inv, TokenKept, Shown, UnderWay, At
<1>5. Read'
  BY <1>1, <1>2 DEF Inv, Read, UnderWay
<1>6. Posted'
  BY <1>1, <1>2 DEF Inv, Posted
<1> QED BY <1>3, <1>4, <1>5, <1>6 DEF Inv

(* A call that goes on: what was read and posted stays, the request is not *)
(* sent again before there is a token.                                     *)
LEMMA GoesOnInv ==
  ASSUME GraphAssumption, Inv, UnderWay, NEW c \in Calls, call' = c,
         c.pc \in {"token", "asking", "waiting"}, c.pc = "asking" => c.since = now,
         c.op = call.op, c.link = call.link, c.pages = call.pages,
         c.steady = call.steady, c.seen = call.seen, c.got = call.got,
         \/ c.try = call.try /\ c.posted = call.posted /\ (c.pc # "waiting" => call.pc # "waiting")
         \/ c.try = call.try + 1 /\ c.posted = call.posted
         \/ /\ c.try = call.try /\ call.op = "mail" /\ call.pc = "wire"
            /\ c.posted = call.posted + 1 /\ c.pc = "waiting",
         UNCHANGED <<now, configured, token, directory, calls, changes>>
  PROVE  Inv'
<1>1. call \in Calls /\ call # None /\ c # None /\ now \in Nat
  BY DEF GraphAssumption, Inv, TypeOK, UnderWay
<1>2. TypeOK'
  BY DEF Inv, TypeOK
<1>3. TokenKept' /\ Shown'
  BY <1>1 DEF Inv, TokenKept, Shown, UnderWay, At
<1>4. Read'
  BY <1>1 DEF Inv, Read, UnderWay
<1>5. Posted'
  BY <1>1 DEF Inv, Posted, UnderWay, Calls
<1> QED BY <1>2, <1>3, <1>4, <1>5 DEF Inv

LEMMA SentInv ==
  ASSUME GraphAssumption, Inv, UnderWay, call.pc \in {"token", "asking"}, call' = Sent,
         token' \in [exp : Nat, good : Nat], token'.exp <= token'.good,
         now + Transit < token'.good,
         UNCHANGED <<now, configured, directory, calls, changes>>
  PROVE  Inv'
<1>0. call \in Calls /\ call # None /\ now \in 0..MaxTime /\ now \in Nat /\ Transit \in Nat
  BY DEF GraphAssumption, Inv, TypeOK, UnderWay
<1>1. token' \in [exp : Nat, good : Nat] \union {None} /\ TokenKept'
  BY DEF TokenKept
<1>2. CASE call.op = "test"
  BY <1>1, <1>2, SaysInv DEF Sent, Answers, Paged, Streamed, Collected
<1>3. CASE call.op # "test"
  <2> DEFINE c == [call EXCEPT !.pc = "wire", !.since = now]
  <2>1. /\ c \in Calls /\ c.pc = "wire" /\ c.since = now /\ call' = c
        /\ c.op = call.op /\ c.link = call.link /\ c.pages = call.pages /\ c.try = call.try
        /\ c.steady = call.steady /\ c.seen = call.seen /\ c.got = call.got
        /\ c.posted = call.posted
    BY <1>0, <1>3 DEF Sent, Calls
  <2> HIDE DEF c
  <2>2. c # None
    BY <2>1 DEF GraphAssumption
  <2>3. TypeOK'
    BY <1>1, <2>1 DEF Inv, TypeOK
  <2>4. Shown'
    BY <1>0, <2>1, <2>2 DEF Inv, Shown, UnderWay, At
  <2>5. Read'
    BY <1>0, <2>1, <2>2 DEF Inv, Read, UnderWay
  <2>6. Posted'
    BY <1>0, <2>1, <2>2 DEF Inv, Posted
  <2> QED BY <1>1, <2>3, <2>4, <2>5, <2>6 DEF Inv
<1> QED BY <1>2, <1>3

-----------------------------------------------------------------------------
(* The page of a list                                                      *)

LEMMA PageInv ==
  ASSUME GraphAssumption, Inv, NEW link \in Links, Page(link)
  PROVE  Inv'
<1> DEFINE read == [call EXCEPT !.got = @ \union Listed(call.link), !.pages = @ + 1, !.try = 1]
<1>0. /\ call \in Calls /\ call # None /\ call.pc = "wire" /\ call.op \in Paged
      /\ call.link \in Nat /\ call.link \in Links /\ call.pages \in Nat /\ MaxPages \in Nat
      /\ call.posted = 0
      /\ call.pages < MaxPages /\ UnderWay
      /\ link \in NamedNext(call.link) /\ call' = Turned(link)
      /\ directory \subseteq People
      /\ UNCHANGED <<now, configured, token, directory, calls, changes>>
  <2>1. /\ call # None /\ call.pc = "wire" /\ call.op \in Paged
        /\ link \in NamedNext(call.link) /\ call' = Turned(link)
        /\ UNCHANGED <<now, configured, token, directory, calls, changes>>
    BY DEF Page, At
  <2>2. /\ call \in Calls /\ directory \subseteq People /\ UnderWay
    BY <2>1 DEF Inv, TypeOK, UnderWay
  <2>3. /\ call.link \in Links /\ call.link \notin Elsewhere /\ call.link # None
        /\ call.pages \in Nat /\ MaxPages \in Nat
    BY <2>1, <2>2 DEF Inv, Shown, Calls, GraphAssumption
  <2>4. call.link \in Nat
    <3>1. \A p \in People : p \in Nat
      BY DEF GraphAssumption
    <3> QED BY <2>3, <3>1 DEF Links, Pages
  <2>5. call.pages < MaxPages
    BY <2>1, <2>2 DEF Inv, Read
  <2>6. call.posted = 0
    BY <2>1 DEF Inv, Posted, Paged, Streamed, Collected
  <2> QED BY <2>1, <2>2, <2>3, <2>4, <2>5, <2>6
<1>1. /\ read \in Calls /\ read.pc = "wire" /\ read.op = call.op /\ read.link = call.link
      /\ read.pages = call.pages + 1 /\ read.try = 1 /\ read.posted = 0
      /\ read.steady = call.steady /\ read.seen = call.seen
      /\ read.got = call.got \union Listed(call.link)
  <2>1. Listed(call.link) \subseteq People
    BY <1>0 DEF Listed
  <2>2. call.pages + 1 \in 0..MaxPages
    BY <1>0
  <2>3. 1 \in 1..MaxAttempts
    BY DEF GraphAssumption
  <2> QED BY <1>0, <2>1, <2>2, <2>3 DEF Calls
<1>2. /\ call.got \subseteq call.seen /\ Listed(call.link) \subseteq call.seen
      /\ call.steady \subseteq directory /\ directory \subseteq call.seen
      /\ \A p \in call.steady : p <= call.link => p \in call.got
  BY <1>0 DEF Inv, Read, Listed
<1>3. \A p \in directory : p \in Nat
  BY <1>0 DEF GraphAssumption
<1> HIDE DEF read
<1>4. ASSUME NEW answer \in Answers, call' = Ended(read, answer),
             answer = "ok" /\ read.pages < MaxPages => link = None
      PROVE  Inv'
  <2>1. /\ call' \in Calls /\ call'.pc = "done" /\ call'.said = answer
        /\ call'.op = call.op /\ call'.link = call.link /\ call'.pages = call.pages + 1
        /\ call'.try = 1 /\ call'.posted = 0
        /\ call'.steady = call.steady /\ call'.seen = call.seen
        /\ call'.got \subseteq call.got \union Listed(call.link)
        /\ answer = "ok" => call'.got = call.got \union Listed(call.link)
    BY <1>1, <1>4, EndedCall
  <2>2. TypeOK'
    BY <1>0, <2>1 DEF Inv, TypeOK
  <2>3. TokenKept' /\ Shown'
    BY <1>0, <2>1 DEF Inv, TokenKept, Shown, UnderWay, At
  <2>4. ASSUME link = None PROVE \A p \in directory : p > call.link => p \in Listed(call.link)
    BY <1>0, <2>4 DEF NamedNext, Listed, Elsewhere, GraphAssumption
  <2>5. link = None => call.steady \subseteq call.got \union Listed(call.link)
    BY <1>0, <1>2, <1>3, <2>4
  <2>6. Read'
    BY <1>1, <1>2, <1>4, <2>1, <2>5 DEF Read, UnderWay
  <2>7. Posted'
    BY <1>0, <2>1 DEF Posted, Paged, Streamed, Collected
  <2> QED BY <2>2, <2>3, <2>6, <2>7 DEF Inv
<1>5. ASSUME Trusted(link), link # None, read.pages < MaxPages,
             call' = [read EXCEPT !.pc = "token", !.link = link]
      PROVE  Inv'
  <2>1. /\ call' \in Calls /\ call'.pc = "token" /\ call'.link = link
        /\ call'.op = call.op /\ call'.pages = call.pages + 1
        /\ call'.try = 1 /\ call'.posted = 0
        /\ call'.steady = call.steady /\ call'.seen = call.seen
        /\ call'.got = call.got \union Listed(call.link)
    BY <1>1, <1>5 DEF Calls
  <2>2. call' # None /\ link \notin Elsewhere /\ link \in Nat
    BY <1>5, <2>1 DEF GraphAssumption, Trusted, Links, Pages, Elsewhere
  <2>3. TypeOK'
    BY <1>0, <2>1 DEF Inv, TypeOK
  <2>4. TokenKept' /\ Shown'
    BY <1>0, <1>5, <2>1, <2>2 DEF Inv, TokenKept, Shown, UnderWay, At
  <2>5. ASSUME NEW p \in call.steady, p <= link PROVE p \in call'.got
    <3>1. p \in directory /\ p \in Nat
      BY <1>2, <1>3
    <3>2. CASE p <= call.link
      BY <1>2, <2>1, <3>2
    <3>3. CASE p > call.link
      <4>1. link # 0
        BY <1>0, <2>2, <2>5, <3>1, <3>3
      <4>2. link \in Listed(call.link)
        BY <1>0, <1>5, <2>2, <4>1 DEF NamedNext
      <4>3. p \in Listed(call.link)
        BY <1>0, <2>5, <3>1, <3>3, <4>2, PageIsWhole
      <4> QED BY <2>1, <4>3
    <3> QED BY <1>0, <3>1, <3>2, <3>3
  <2>6. Read'
    BY <1>0, <1>1, <1>2, <1>5, <2>1, <2>2, <2>5 DEF Read, UnderWay
  <2>7. Posted'
    BY <2>1 DEF Posted
  <2> QED BY <2>3, <2>4, <2>6, <2>7 DEF Inv
<1>6. call' = IF read.pages >= MaxPages THEN Ended(read, "ok")
              ELSE IF ~Trusted(link) THEN Ended(read, "GraphError")
              ELSE IF link = None THEN Ended(read, "ok")
              ELSE [read EXCEPT !.pc = "token", !.link = link]
  BY <1>0 DEF Turned, read
<1>7. CASE read.pages >= MaxPages
  <2>1. ~(read.pages < MaxPages)
    BY <1>0, <1>1, <1>7
  <2> QED BY <1>4, <1>6, <1>7, <2>1 DEF Answers
<1>8. CASE ~(read.pages >= MaxPages)
  <2>1. read.pages < MaxPages
    BY <1>0, <1>1, <1>8
  <2>2. CASE ~Trusted(link)
    BY <1>4, <1>6, <1>8, <2>2 DEF Answers
  <2>3. CASE Trusted(link) /\ link = None
    BY <1>4, <1>6, <1>8, <2>3 DEF Answers
  <2>4. CASE Trusted(link) /\ link # None
    BY <1>5, <1>6, <1>8, <2>1, <2>4
  <2> QED BY <2>2, <2>3, <2>4
<1> QED BY <1>7, <1>8

-----------------------------------------------------------------------------
(* The other steps                                                         *)

LEMMA StartInv ==
  ASSUME GraphAssumption, Inv, NEW op \in Ops, Start(op)
  PROVE  Inv'
<1>0. /\ directory \subseteq People /\ now \in 0..MaxTime /\ calls \in 0..MaxCalls
      /\ MaxCalls \in Nat /\ calls < MaxCalls /\ calls' = calls + 1
      /\ UNCHANGED <<now, configured, token, directory, changes>>
  BY DEF Start, Inv, TypeOK, GraphAssumption
<1>1. /\ call'.op = op /\ call'.pc = "token" /\ call'.link = 0 /\ call'.pages = 0
      /\ call'.try = 1 /\ call'.got = {} /\ call'.posted = 0
      /\ call'.steady = (IF op \in Paged THEN directory ELSE {})
      /\ call'.seen = IF op \in Paged THEN directory ELSE {}
  BY DEF Start
<1>2. call' \in Calls
  <2>1. /\ 0 \in Links /\ 1 \in 1..MaxAttempts /\ 0 \in 0..MaxPages /\ 0 \in Nat
        /\ {} \subseteq People
    BY DEF GraphAssumption, Links, Pages
  <2>2. (IF op \in Paged THEN directory ELSE {}) \subseteq People
    BY <1>0
  <2> QED BY <1>0, <2>1, <2>2 DEF Start, Calls
<1>3. call' # None /\ 0 # None /\ 0 \notin Elsewhere
  BY <1>2 DEF GraphAssumption, Elsewhere
<1>4. TypeOK'
  <2>1. calls' \in 0..MaxCalls
    BY <1>0
  <2> QED BY <1>0, <1>2, <2>1 DEF Inv, TypeOK
<1>5. TokenKept' /\ Shown'
  BY <1>0, <1>1, <1>3 DEF Inv, TokenKept, Shown, UnderWay, At
<1>6. Read'
  <2>1. \A p \in directory : ~(p <= 0)
    BY <1>0 DEF GraphAssumption
  <2>2. 0 < MaxPages
    BY DEF GraphAssumption
  <2> QED BY <1>0, <1>1, <1>3, <2>1, <2>2 DEF Read, UnderWay
<1>7. Posted'
  BY <1>1 DEF Posted
<1> QED BY <1>4, <1>5, <1>6, <1>7 DEF Inv

LEMMA TokenInv ==
  ASSUME GraphAssumption, Inv,
         KeptToken \/ AskForToken \/ TokenDenied \/ \E life \in Lifetimes : TokenGranted(life)
  PROVE  Inv'
<1>0. /\ UnderWay /\ call \in Calls /\ call.pc \in {"token", "asking"}
      /\ now \in 0..MaxTime /\ now \in Nat /\ MaxTime \in Nat
      /\ token \in [exp : Nat, good : Nat] \union {None} /\ TokenKept
      /\ Margin \in Nat /\ Transit \in Nat /\ Transit < Margin
  BY DEF KeptToken, AskForToken, TokenDenied, TokenGranted, At, UnderWay, Inv, TypeOK, GraphAssumption
<1>r. \A error \in {"GraphError", "error"} : Raised(error) \in Answers \ {"ok"}
  BY DEF Raised, Answers
<1>1. CASE KeptToken
  <2>1. token # None /\ now < token.exp - Margin /\ call' = Sent
        /\ UNCHANGED <<now, configured, token, directory, calls, changes>>
    BY <1>1 DEF KeptToken, Fresh
  <2>2. token \in [exp : Nat, good : Nat] /\ token.exp \in Nat /\ token.good \in Nat
    BY <1>0, <2>1
  <2>3. token.exp <= token.good /\ now + Transit < token.good
    BY <1>0, <2>1, <2>2 DEF TokenKept
  <2> QED BY <1>0, <2>1, <2>2, <2>3, SentInv
<1>2. CASE AskForToken
  <2>1. CASE configured
    <3> DEFINE c == [call EXCEPT !.pc = "asking", !.since = now]
    <3>1. /\ c \in Calls /\ c.pc = "asking" /\ c.since = now
          /\ c.op = call.op /\ c.link = call.link /\ c.pages = call.pages /\ c.try = call.try
          /\ c.steady = call.steady /\ c.seen = call.seen /\ c.got = call.got
          /\ c.posted = call.posted
      BY <1>0 DEF Calls
    <3>2. /\ call' = c /\ call.pc # "waiting"
          /\ UNCHANGED <<now, configured, token, directory, calls, changes>>
      BY <1>2, <2>1 DEF AskForToken, At
    <3> HIDE DEF c
    <3> QED BY <1>0, <3>1, <3>2, GoesOnInv
  <2>2. CASE ~configured
    <3>1. /\ call' = Says(Raised("GraphError")) /\ TokenKept'
          /\ UNCHANGED <<now, configured, token, directory, calls, changes>>
      BY <1>0, <1>2, <2>2 DEF AskForToken, TokenKept
    <3> QED BY <1>0, <1>r, <3>1, SaysInv
  <2> QED BY <2>1, <2>2
<1>3. CASE TokenDenied
  <2>1. PICK error \in {"GraphError", "error"} : call' = Says(Raised(error))
    BY <1>3 DEF TokenDenied
  <2>2. TokenKept' /\ UNCHANGED <<now, configured, token, directory, calls, changes>>
    BY <1>0, <1>3 DEF TokenDenied, TokenKept
  <2> QED BY <1>0, <1>r, <2>1, <2>2, SaysInv
<1>4. ASSUME NEW life \in Lifetimes, TokenGranted(life) PROVE Inv'
  <2>1. /\ call.pc = "asking" /\ call' = Sent
        /\ token' = [exp |-> call.since + life, good |-> now + life]
        /\ UNCHANGED <<now, configured, directory, calls, changes>>
    BY <1>4 DEF TokenGranted, At
  <2>2. life \in Nat /\ Transit < life
    BY DEF GraphAssumption
  <2>3. call.since \in Nat /\ call.since <= now
    BY <1>0, <2>1 DEF Inv, Shown, UnderWay, At, Calls
  <2>4. /\ token' \in [exp : Nat, good : Nat] /\ token'.exp <= token'.good
        /\ now + Transit < token'.good
    BY <1>0, <2>1, <2>2, <2>3
  <2> QED BY <1>0, <2>1, <2>4, SentInv
<1> QED BY <1>1, <1>2, <1>3, <1>4

LEMMA AnswerInv ==
  ASSUME GraphAssumption, Inv, Accepted \/ Refused \/ Throttled \/ Lost \/ TryAgain
  PROVE  Inv'
<1>0. /\ UnderWay /\ call \in Calls /\ call # None /\ now \in Nat
      /\ token \in [exp : Nat, good : Nat] \union {None} /\ TokenKept /\ TokenKept'
      /\ UNCHANGED <<now, configured, token, directory, calls, changes>>
  <2>1. /\ call # None /\ call.pc \in {"wire", "waiting"}
        /\ UNCHANGED <<now, configured, token, directory, calls, changes>>
    BY DEF Accepted, Refused, Throttled, Lost, TryAgain, At
  <2>2. TokenKept /\ TokenKept'
    BY <2>1 DEF Inv, TokenKept
  <2> QED BY <2>1, <2>2 DEF UnderWay, Inv, TypeOK
<1>1. ASSUME NEW answer \in Answers \ {"ok"}, call' = Says(answer) PROVE Inv'
  BY <1>0, <1>1, SaysInv
<1>2. CASE Accepted
  <2> DEFINE posted == IF call.op = "mail" THEN call.posted + 1 ELSE call.posted
  <2>1. /\ call.pc = "wire" /\ call.op \in {"mail", "check", "photo"}
        /\ call' = [Says("ok") EXCEPT !.posted = posted]
    <3>1. Says("ok").posted = call.posted /\ Says("ok").op = call.op
      BY <1>0, EndedCall DEF Says, Answers
    <3> QED BY <1>2, <3>1 DEF Accepted, At
  <2>2. posted \in Nat /\ (call.op # "mail" => posted = 0) /\ posted <= call.try
        /\ (call.op = "mail" => posted > 0)
    BY <1>0, <2>1 DEF Inv, Posted, Calls
  <2> HIDE DEF posted
  <2>3. /\ call' \in Calls /\ call'.pc = "done" /\ call'.op = call.op /\ call'.link = call.link
        /\ call'.pages = call.pages /\ call'.try = call.try /\ call'.posted = posted
        /\ call'.seen = call.seen /\ call'.got \subseteq call.got
    <3> DEFINE e == Says("ok")
    <3>1. /\ e \in Calls /\ e.pc = "done" /\ e.op = call.op /\ e.link = call.link
          /\ e.pages = call.pages /\ e.try = call.try
          /\ e.seen = call.seen /\ e.got \subseteq call.got
      BY <1>0, EndedCall DEF Says, Answers
    <3> HIDE DEF e
    <3>2. call' = [e EXCEPT !.posted = posted]
      BY <2>1 DEF e
    <3> QED BY <2>2, <3>1, <3>2 DEF Calls
  <2>4. TypeOK'
    BY <1>0, <2>3 DEF Inv, TypeOK
  <2>5. Shown'
    BY <1>0, <2>3 DEF Inv, Shown, UnderWay, At
  <2>6. Read'
    BY <1>0, <2>1, <2>3 DEF Inv, Read, UnderWay, Paged, Streamed, Collected
  <2>7. Posted'
    BY <2>2, <2>3 DEF Posted
  <2> QED BY <1>0, <2>4, <2>5, <2>6, <2>7 DEF Inv
<1>3. CASE Refused
  <2>1. PICK error \in {"GraphError", "error"} : call' = Says(Raised(error))
    BY <1>3 DEF Refused
  <2> QED BY <1>1, <2>1 DEF Raised, Answers
<1>4. CASE Throttled
  <2>1. CASE call' = Says("error")
    BY <1>1, <2>1 DEF Answers
  <2>2. ASSUME NEW wait \in Waits, call' = [call EXCEPT !.pc = "waiting", !.until = now + wait]
        PROVE  Inv'
    <3>1. wait \in Nat /\ now + wait \in Nat
      <4>1. wait \in Nat
        BY DEF GraphAssumption
      <4> QED BY <1>0, <4>1
    <3>2. /\ call' \in Calls /\ call'.pc = "waiting"
          /\ call'.op = call.op /\ call'.link = call.link /\ call'.pages = call.pages
          /\ call'.steady = call.steady /\ call'.seen = call.seen /\ call'.got = call.got
          /\ call'.try = call.try /\ call'.posted = call.posted
      BY <1>0, <2>2, <3>1 DEF Calls
    <3> QED BY <1>0, <3>2, GoesOnInv
  <2> QED BY <1>4, <2>1, <2>2 DEF Throttled
<1>5. CASE Lost
  <2>1. PICK done \in IF call.op = "mail" THEN {0, 1} ELSE {0} :
          call' = IF call.op = "photo" THEN Says("nothing")
                  ELSE [call EXCEPT !.pc = "waiting", !.until = now, !.posted = @ + done]
    BY <1>5 DEF Lost
  <2>2. CASE call.op = "photo"
    BY <1>1, <2>1, <2>2 DEF Answers
  <2>3. CASE call.op # "photo"
    <3>0. done \in {0, 1} /\ call.pc = "wire" /\ call.posted \in Nat
      BY <1>0, <1>5, <2>1 DEF Lost, At, Calls
    <3>1. call.posted \in Nat /\ done \in Nat /\ call.posted + done \in Nat /\ call.pc = "wire"
      BY <3>0
    <3>2. /\ call' \in Calls /\ call'.pc = "waiting"
          /\ call'.op = call.op /\ call'.link = call.link /\ call'.pages = call.pages
          /\ call'.steady = call.steady /\ call'.seen = call.seen /\ call'.got = call.got
          /\ call'.try = call.try /\ call'.posted = call.posted + done
      BY <1>0, <2>1, <2>3, <3>1 DEF Calls
    <3>3. done = 0 \/ (done = 1 /\ call.op = "mail")
      BY <2>1
    <3>4. CASE done = 0
      <4>1. call'.posted = call.posted
        BY <3>1, <3>2, <3>4
      <4> QED BY <1>0, <3>2, <4>1, GoesOnInv
    <3>5. CASE done = 1 /\ call.op = "mail"
      BY <1>0, <3>1, <3>2, <3>5, GoesOnInv
    <3> QED BY <3>3, <3>4, <3>5
  <2> QED BY <2>2, <2>3
<1>6. CASE TryAgain
  <2>1. CASE ~(call.try < MaxAttempts)
    BY <1>1, <1>6, <2>1 DEF TryAgain, Answers
  <2>2. CASE call.try < MaxAttempts
    <3>1. call.try + 1 \in 1..MaxAttempts
      BY <1>0, <2>2 DEF Calls, GraphAssumption
    <3>2. call' = [call EXCEPT !.pc = "token", !.try = @ + 1, !.until = 0]
      BY <1>6, <2>2 DEF TryAgain
    <3>3. /\ call' \in Calls /\ call'.pc = "token"
          /\ call'.op = call.op /\ call'.link = call.link /\ call'.pages = call.pages
          /\ call'.steady = call.steady /\ call'.seen = call.seen /\ call'.got = call.got
          /\ call'.try = call.try + 1 /\ call'.posted = call.posted
      BY <1>0, <3>1, <3>2 DEF Calls
    <3> QED BY <1>0, <3>3, GoesOnInv
  <2> QED BY <2>1, <2>2
<1> QED BY <1>2, <1>3, <1>4, <1>5, <1>6

LEMMA TickInv == ASSUME GraphAssumption, Inv, Tick PROVE Inv'
<1>1. /\ UNCHANGED <<configured, token, directory, call, calls, changes>>
      /\ now \in Nat /\ now' = now + 1 /\ now' \in 0..MaxTime
      /\ At("wire") => now < call.since + Transit
  BY DEF Tick, Inv, TypeOK, GraphAssumption
<1>2. TypeOK'
  BY <1>1 DEF Inv, TypeOK
<1>3. TokenKept' /\ Read' /\ Posted'
  BY <1>1 DEF Inv, TokenKept, Read, Posted, UnderWay
<1>4. ASSUME call # None PROVE call.since \in Nat /\ Transit \in Nat
  BY <1>4 DEF Inv, TypeOK, Calls, GraphAssumption
<1>5. Shown'
  BY <1>1, <1>4 DEF Inv, Shown, UnderWay, At
<1> QED BY <1>2, <1>3, <1>5 DEF Inv

LEMMA DirectoryInv ==
  ASSUME GraphAssumption, Inv, NEW p \in People, JoinOrLeave(p)
  PROVE  Inv'
<1>0. /\ UNCHANGED <<now, configured, token, calls>>
      /\ directory' \subseteq People /\ changes' \in 0..MaxChanges
      /\ call \in Calls \union {None}
  BY DEF JoinOrLeave, Inv, TypeOK, GraphAssumption
<1>1. CASE call = None \/ At("done") \/ call.op \notin Paged
  <2>1. call' = call
    BY <1>1 DEF JoinOrLeave
  <2>2. TypeOK'
    BY <1>0, <2>1 DEF Inv, TypeOK
  <2>3. TokenKept' /\ Shown' /\ Posted'
    BY <1>0, <2>1 DEF Inv, TokenKept, Shown, Posted, UnderWay, At
  <2>4. Read'
    BY <1>1, <2>1 DEF Inv, Read, UnderWay, At
  <2> QED BY <2>2, <2>3, <2>4 DEF Inv
<1>2. CASE ~(call = None \/ At("done") \/ call.op \notin Paged)
  <2>1. /\ call' = [call EXCEPT !.steady = @ \intersect directory', !.seen = @ \union directory']
        /\ call \in Calls /\ call # None /\ call.pc # "done" /\ call.op \in Paged
    BY <1>0, <1>2 DEF JoinOrLeave, At
  <2>2. /\ call' \in Calls /\ call'.steady = call.steady \intersect directory'
        /\ call'.seen = call.seen \union directory'
        /\ call'.op = call.op /\ call'.pc = call.pc /\ call'.since = call.since
        /\ call'.link = call.link /\ call'.pages = call.pages /\ call'.try = call.try
        /\ call'.got = call.got /\ call'.posted = call.posted /\ call'.said = call.said
    BY <1>0, <2>1 DEF Calls
  <2>3. call' # None
    BY <2>2 DEF GraphAssumption
  <2>4. TypeOK'
    BY <1>0, <2>2 DEF Inv, TypeOK
  <2>5. TokenKept' /\ Shown' /\ Posted'
    BY <1>0, <2>1, <2>2, <2>3 DEF Inv, TokenKept, Shown, Posted, UnderWay, At
  <2>6. Read'
    BY <2>1, <2>2, <2>3 DEF Inv, Read, UnderWay
  <2> QED BY <2>4, <2>5, <2>6 DEF Inv
<1> QED BY <1>1, <1>2

-----------------------------------------------------------------------------
(* Theorems                                                                *)

LEMMA InvNext == ASSUME GraphAssumption, Inv, [Next]_vars PROVE Inv'
<1>1. CASE \E op \in Ops : Start(op)
  BY <1>1, StartInv
<1>2. CASE KeptToken \/ AskForToken \/ TokenDenied \/ \E life \in Lifetimes : TokenGranted(life)
  BY <1>2, TokenInv
<1>3. CASE \E link \in Links : Page(link)
  BY <1>3, PageInv
<1>4. CASE Accepted \/ Refused \/ Throttled \/ Lost \/ TryAgain
  BY <1>4, AnswerInv
<1>5. CASE Tick
  BY <1>5, TickInv
<1>6. CASE \E p \in People : JoinOrLeave(p)
  BY <1>6, DirectoryInv
<1>7. CASE UNCHANGED vars
  <2>1. TypeOK' /\ TokenKept' /\ Posted'
    BY <1>7 DEF vars, Inv, TypeOK, TokenKept, Posted
  <2>2. Shown' /\ Read'
    BY <1>7 DEF vars, Inv, Shown, Read, UnderWay, At
  <2> QED BY <2>1, <2>2 DEF Inv
<1> QED BY <1>1, <1>2, <1>3, <1>4, <1>5, <1>6, <1>7 DEF Next

(* Every call, what it sleeps for and what it has collected stay in their  *)
(* types, the bounds on pages and attempts included (client.py:44, 242).   *)
THEOREM GraphTyped == ASSUME GraphAssumption PROVE Spec => []TypeOK
<1>1. Inv => TypeOK
  BY DEF Inv
<1>2. Init => Inv
  BY InvInit
<1>3. Inv /\ [Next]_vars => Inv'
  BY InvNext
<1> QED BY <1>1, <1>2, <1>3, PTL DEF Spec

(* A token is only shown to Graph, and while it is good, however long the  *)
(* client slept and whatever an answer named as the next page              *)
(* (client.py:180, 216, 320).                                              *)
THEOREM TokensStaySafe == ASSUME GraphAssumption PROVE Spec => []TokenInGoodHands
<1>1. Inv => TokenInGoodHands
  <2> SUFFICES ASSUME Inv, At("wire") PROVE call.link \notin Elsewhere /\ now < token.good
    BY DEF TokenInGoodHands
  <2>1. call # None /\ call.since \in Nat /\ now \in Nat /\ Transit \in Nat
    BY DEF At, Inv, TypeOK, Calls, GraphAssumption
  <2>2. now <= call.since + Transit /\ call.since + Transit < token.good
    BY DEF Inv, Shown
  <2> QED BY <2>1, <2>2 DEF Inv, Shown
<1>2. Init => Inv
  BY InvInit
<1>3. Inv /\ [Next]_vars => Inv'
  BY InvNext
<1> QED BY <1>1, <1>2, <1>3, PTL DEF Spec

(* A list that ends normally below the cap holds everybody who was there   *)
(* all the time and nobody who never was, and a mail that is said to be    *)
(* sent was accepted (client.py:320, 373, 434).                            *)
THEOREM WhatIsSaidIsTrue == ASSUME GraphAssumption PROVE Spec => []AnswersAreTrue
<1>1. Inv => AnswersAreTrue
  <2> SUFFICES ASSUME Inv, At("done") PROVE AnswersAreTrue
    BY DEF AnswersAreTrue
  <2>1. /\ call # None /\ call.pc = "done"
        /\ call.posted \in Nat /\ call.try \in 1..MaxAttempts /\ MaxAttempts \in Nat
    BY DEF At, Inv, TypeOK, Calls, GraphAssumption
  <2>2. call.posted <= MaxAttempts
    BY <2>1 DEF Inv, Posted
  <2> QED BY <2>1, <2>2 DEF Inv, Read, Posted, AnswersAreTrue
<1>2. Init => Inv
  BY InvInit
<1>3. Inv /\ [Next]_vars => Inv'
  BY InvNext
<1> QED BY <1>1, <1>2, <1>3, PTL DEF Spec
=============================================================================
