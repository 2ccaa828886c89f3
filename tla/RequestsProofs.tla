---------------------------- MODULE RequestsProofs ----------------------------
(***************************************************************************)
(* Theorems about Requests, for any number of requests and browsers, any   *)
(* scenes, limits and periods.                                             *)
(***************************************************************************)
EXTENDS Requests, FiniteSetTheorems, TLAPS

Places == {"idle", "sent", "handler", "exchange", "create", "save", "wait", "decode",
           "store", "answered", "done"}

Codes == {None, "200", "201", "202", "204", "302", "400", "401", "403", "413", "429",
          "500", "login_expired", "state_mismatch", "access_denied", "login_failed",
          "home"}

\* Every variable has its type.
TypeOK ==
  /\ \E s \in Scenes : job = s.job
  /\ pc \in [Request -> Places]
  /\ carry \in [Request -> [session : Token \cup {None}, flow : Request \cup {None}]]
  /\ who \in [Request -> User \cup {None}]
  /\ answer \in [Request -> [code : Codes, session : Token \cup {None, Keep},
                             flow : Request \cup {None, Keep}]]
  /\ cookie \in [Browser -> Token \cup {None}]
  /\ flow \in [Browser -> Request \cup {None}]
  /\ owner \in [Token -> User \cup {None}]
  /\ left \in [Token -> Nat]
  /\ spent \subseteq Request /\ filed \subseteq Request /\ erased \subseteq Request
  /\ age \in [Request -> Nat] /\ peak \in [Addr -> Nat]

\* A token that anybody carries has its row behind it: it was there from the
\* start, or the callback that made it has been answered.
MadeToken(t) == t \in Request => Answered(t)

TokensMade ==
  /\ \A r \in Request : MadeToken(carry[r].session) /\ MadeToken(answer[r].session)
  /\ \A b \in Browser : MadeToken(cookie[b])

InHandler(r) == pc[r] \notin {"idle", "sent", "answered", "done"}

\* Where a request can be, and what let it come there.
PlacesFit ==
  \A r \in Request :
    /\ InHandler(r) => Admitted(r)
    /\ pc[r] = "save" => Kind(r) = "contact" /\ Valid(r)
    /\ pc[r] \in {"exchange", "create"} =>
         Kind(r) = "callback" /\ r \in DOMAIN job /\ carry[r].flow # None
    /\ pc[r] \in {"sent", "handler"} => r \in DOMAIN job
    /\ pc[r] \in {"wait", "decode", "store"} => Kind(r) = "upload" /\ r \in DOMAIN job

\* SignedIn, from the moment the session is resolved.
Served ==
  \A r \in Request :
    /\ InHandler(r) /\ Live(carry[r].session) => who[r] = owner[carry[r].session]
    /\ Answered(r) /\ Live(carry[r].session) /\ answer[r].code \notin {"403", "413", "500"}
         => who[r] = owner[carry[r].session]

\* AcceptedIsStored, with what is stored already.
Stored == AcceptedIsStored /\ \A r \in filed : Answered(r)

\* Nothing is erased before its time.
ErasedLate ==
  /\ \A q \in Request : q \notin filed => age[q] = 0
  /\ \A q \in erased : age[q] >= Retention

\* Those of an address who are stored, and those who are about to be.
Counted(a) == Cardinality(SentLately(a)) + Cardinality(Between(a))

LimitKept ==
  Window <= Retention => \A a \in Addr : Counted(a) < RateMax + Higher(peak[a], 1)

RequestsInv ==
  /\ TypeOK /\ TokensMade /\ PlacesFit /\ Served /\ LogoutIsFinal /\ Stored
  /\ ErasedLate /\ LimitKept

\* Nobody passes the limit or leaves it, and no row appears or ages: the
\* count stays.
LEMMA LimitStays ==
  ASSUME LimitKept, UNCHANGED <<job, filed, age, peak>>,
         \A r \in Request : pc[r] = "save" <=> pc'[r] = "save"
  PROVE  LimitKept'
<1> \A a \in Addr : SentLately(a)' = SentLately(a) /\ Between(a)' = Between(a)
  BY DEF SentLately, Between, Address
<1> QED BY DEF LimitKept, Counted

\* What a reply and a move of a request leave behind.
LEMMA ReplyFacts ==
  ASSUME TypeOK, NEW r \in Request, NEW code \in Codes,
         NEW s \in Token \cup {None, Keep}, NEW f \in Request \cup {None, Keep},
         Reply(r, code, s, f)
  PROVE  /\ pc' \in [Request -> Places]
         /\ answer' \in [Request -> [code : Codes, session : Token \cup {None, Keep},
                                     flow : Request \cup {None, Keep}]]
         /\ pc'[r] = "answered"
         /\ answer'[r] = [code |-> code, session |-> s, flow |-> f]
         /\ \A q \in Request \ {r} : pc'[q] = pc[q] /\ answer'[q] = answer[q]
BY DEF TypeOK, Reply, Goto, Places

LEMMA GotoFacts ==
  ASSUME TypeOK, NEW r \in Request, NEW p \in Places, Goto(r, p)
  PROVE  /\ pc' \in [Request -> Places]
         /\ pc'[r] = p
         /\ \A q \in Request \ {r} : pc'[q] = pc[q]
BY DEF TypeOK, Goto

\* What was stored is told apart as before when one more request is answered.
LEMMA StoredAfterReply ==
  ASSUME TypeOK, Stored, NEW r \in Request, ~Answered(r), UNCHANGED <<job, filed>>,
         pc'[r] = "answered",
         \A q \in Request \ {r} : pc'[q] = pc[q] /\ answer'[q] = answer[q],
         Kind(r) = "contact" /\ answer'[r].code = "202" => ~Valid(r)
  PROVE  Stored'
<1>1. r \notin filed
  BY DEF Stored
<1>2. /\ \A q \in Request : Kind(q)' = Kind(q) /\ Valid(q)' = Valid(q)
      /\ \A q \in Request : Admitted(q)' = Admitted(q)
  BY DEF Admitted, Trusted, StateChanging, TooLarge, Kind, Valid
<1>3. \A q \in filed : Answered(q)'
  BY DEF Stored, Answered, TypeOK
<1>4. ASSUME NEW q \in Request, Answered(q)', Kind(q) = "contact",
             answer'[q].code # "500"
      PROVE  q \in filed <=> answer'[q].code = "202" /\ Valid(q)
  <2>1. CASE q = r
    BY <1>1, <1>4, <2>1
  <2>2. CASE q # r
    BY <1>4, <2>2 DEF Stored, AcceptedIsStored, Answered
  <2> QED BY <2>1, <2>2
<1>5. \A q \in filed : Admitted(q) /\ Valid(q)
  BY DEF Stored, AcceptedIsStored, TypeOK
<1> QED BY <1>2, <1>3, <1>4, <1>5 DEF Stored, AcceptedIsStored, TypeOK

\* The tokens about exist, when one more request is answered with its own.
LEMMA TokensAfterReply ==
  ASSUME TypeOK, TokensMade, NEW r \in Request, UNCHANGED <<carry, cookie>>,
         pc'[r] = "answered", answer'[r].session \in {Keep, None, r},
         \A q \in Request \ {r} : pc'[q] = pc[q] /\ answer'[q] = answer[q]
  PROVE  TokensMade'
<1>1. \A t \in Token \cup {None, Keep} : MadeToken(t) => MadeToken(t)'
  BY DEF MadeToken, Answered
<1>2. MadeToken(answer[r].session)'
  BY SessionsAssumption DEF MadeToken, Answered, Token
<1> QED BY <1>1, <1>2 DEF TokensMade, TypeOK

\* A session that lives lived before, and with the same owner, for whoever
\* carries its token.
LEMMA LiveBefore ==
  ASSUME TypeOK, TokensMade, UNCHANGED carry,
         owner' \in [Token -> User \cup {None}], left' \in [Token -> Nat],
         \A t \in Token : MadeToken(t) =>
           owner'[t] \in {owner[t], None} /\ left'[t] <= left[t],
         NEW q \in Request, Live(carry[q].session)'
  PROVE  Live(carry[q].session) /\ owner'[carry[q].session] = owner[carry[q].session]
<1>1. carry[q].session \in Token /\ MadeToken(carry[q].session)
  BY DEF Live, TypeOK, TokensMade
<1> QED BY <1>1 DEF Live, TypeOK

\* An answer that sets no session and stores nothing.
LEMMA AnswersKeep ==
  ASSUME RequestsInv, NEW r \in Request, NEW code \in Codes,
         NEW f \in Request \cup {None, Keep}, Reply(r, code, Keep, f),
         UNCHANGED <<job, carry, who, jars, table, intakeVars>>, spent' \subseteq Request,
         pc[r] \in {"sent", "handler", "exchange", "create", "wait", "decode", "store"},
         pc[r] = "sent" => code \in {"403", "413", "500"},
         code # "204",
         Kind(r) = "contact" /\ code = "202" => ~Valid(r)
  PROVE  RequestsInv'
<1> USE SessionsAssumption, IntakeAssumption DEF RequestsInv, jars, table, intakeVars
<1>0. /\ pc' \in [Request -> Places]
      /\ answer' \in [Request -> [code : Codes, session : Token \cup {None, Keep},
                                  flow : Request \cup {None, Keep}]]
      /\ pc'[r] = "answered"
      /\ answer'[r] = [code |-> code, session |-> Keep, flow |-> f]
      /\ \A q \in Request \ {r} : pc'[q] = pc[q] /\ answer'[q] = answer[q]
  BY ReplyFacts
<1>1. TypeOK'
  BY <1>0 DEF TypeOK
<1>2. TokensMade'
  BY <1>0 DEF TokensMade, MadeToken, Answered, Token
<1>3. PlacesFit'
  BY <1>0 DEF PlacesFit, InHandler, Admitted, Trusted, StateChanging, TooLarge,
     Kind, Valid
<1>4. Served'
  BY <1>0 DEF Served, InHandler, Answered, Live
<1>5. LogoutIsFinal'
  BY <1>0 DEF LogoutIsFinal, Answered, Live, Kind
<1>6. Stored'
  <2>1. ~Answered(r)
    BY DEF Answered
  <2> QED BY <1>0, <2>1, StoredAfterReply
<1>7. ErasedLate'
  BY DEF ErasedLate
<1>8. LimitKept'
  BY <1>0, LimitStays
<1> QED BY <1>1, <1>2, <1>3, <1>4, <1>5, <1>6, <1>7, <1>8

\* A move within the handler, short of storing a message.
LEMMA GoingKeeps ==
  ASSUME RequestsInv, NEW r \in Request,
         NEW p \in {"exchange", "create", "wait", "decode", "store"}, Goto(r, p),
         UNCHANGED <<job, carry, who, answer, jars, table, intakeVars>>,
         spent' \subseteq Request,
         pc[r] \in {"handler", "exchange", "wait", "decode"},
         p \in {"exchange", "create"} =>
           Kind(r) = "callback" /\ r \in DOMAIN job /\ carry[r].flow # None,
         p \in {"wait", "decode", "store"} => Kind(r) = "upload"
  PROVE  RequestsInv'
<1> USE SessionsAssumption, IntakeAssumption DEF RequestsInv, jars, table, intakeVars
<1>0. /\ pc' \in [Request -> Places]
      /\ pc'[r] = p
      /\ \A q \in Request \ {r} : pc'[q] = pc[q]
  BY GotoFacts DEF Places
<1>1. TypeOK'
  BY <1>0 DEF TypeOK
<1>2. TokensMade'
  BY <1>0 DEF TokensMade, MadeToken, Answered
<1>3. PlacesFit'
  BY <1>0 DEF PlacesFit, InHandler, Admitted, Trusted, StateChanging, TooLarge,
     Kind, Valid
<1>4. Served'
  BY <1>0 DEF Served, InHandler, Answered, Live
<1>5. LogoutIsFinal'
  BY <1>0 DEF LogoutIsFinal, Answered, Live, Kind
<1>6. Stored'
  BY <1>0 DEF Stored, AcceptedIsStored, Answered, Admitted, Trusted, StateChanging,
     TooLarge, Kind, Valid, TypeOK
<1>7. ErasedLate'
  BY DEF ErasedLate
<1>8. LimitKept'
  BY <1>0, LimitStays
<1> QED BY <1>1, <1>2, <1>3, <1>4, <1>5, <1>6, <1>7, <1>8

\* Who is turned away, asks or starts a login gets such an answer.
LEMMA AnswersOnly ==
  ASSUME RequestsInv, NEW r \in Request, UNCHANGED intakeVars,
         Turned(r) \/ StartGoogleLogin(r) \/ GetMe(r) \/ GiveUp(r) \/ Store(r)
  PROVE  RequestsInv'
<1> USE SessionsAssumption DEF Plain, At, Kind, table, jars
<1>1. CASE Turned(r)
  <2>1. PICK code \in {"403", "413"} : Plain(r, code)
    BY <1>1 DEF Turned
  <2> QED BY <1>1, <2>1, AnswersKeep DEF Turned, Codes, RequestsInv, TypeOK
<1>2. CASE StartGoogleLogin(r)
  BY <1>2, AnswersKeep DEF StartGoogleLogin, Codes, RequestsInv, TypeOK
<1>3. CASE GetMe(r)
  BY <1>3, AnswersKeep DEF GetMe, Codes, RequestsInv, TypeOK
<1>4. CASE GiveUp(r)
  BY <1>4, AnswersKeep DEF GiveUp, Codes, RequestsInv, TypeOK
<1>5. CASE Store(r)
  <2>1. PICK code \in {"201", "500"} : Plain(r, code)
    BY <1>5 DEF Store
  <2> QED BY <1>5, <2>1, AnswersKeep DEF Store, Codes, RequestsInv, TypeOK
<1> QED BY <1>1, <1>2, <1>3, <1>4, <1>5

\* A callback, up to its session: it is answered or goes on.
LEMMA CallbackKeeps ==
  ASSUME RequestsInv, NEW r \in Request, UNCHANGED intakeVars,
         Callback(r) \/ Exchange(r)
  PROVE  RequestsInv'
<1> USE SessionsAssumption DEF At, Kind, table, jars
<1>0. spent \subseteq Request
  BY DEF RequestsInv, TypeOK
<1>1. CASE Callback(r)
  <2>1. ASSUME NEW code \in {"login_expired", "state_mismatch", "access_denied"},
               Reply(r, code, Keep, None)
        PROVE  RequestsInv'
    BY <1>0, <1>1, <2>1, AnswersKeep DEF Callback, Codes
  <2>2. ASSUME Goto(r, "exchange"), UNCHANGED answer
        PROVE  RequestsInv'
    <3>1. r \in DOMAIN job
      BY <1>1 DEF Callback, RequestsInv, PlacesFit
    <3>2. carry[r].flow # None
      BY <1>1, <2>2 DEF Callback, Reply, Goto, RequestsInv, TypeOK, Places
    <3> QED BY <1>0, <1>1, <2>2, <3>1, <3>2, GoingKeeps DEF Callback
  <2> QED BY <1>1, <2>1, <2>2 DEF Callback
<1>2. CASE Exchange(r)
  <2>1. ASSUME Goto(r, "create"), UNCHANGED answer,
               carry[r].flow \notin spent, spent' = spent \cup {carry[r].flow}
        PROVE  RequestsInv'
    <3>1. r \in DOMAIN job /\ Kind(r) = "callback" /\ carry[r].flow # None
      BY <1>2 DEF Exchange, RequestsInv, PlacesFit
    <3>2. spent' \subseteq Request
      BY <2>1, <1>0, <3>1 DEF RequestsInv, TypeOK
    <3> QED BY <1>2, <2>1, <3>1, <3>2, GoingKeeps DEF Exchange
  <2>2. ASSUME Reply(r, "401", Keep, None), UNCHANGED spent
        PROVE  RequestsInv'
    BY <1>0, <1>2, <2>2, AnswersKeep DEF Exchange, Codes
  <2> QED BY <1>2, <2>1, <2>2 DEF Exchange
<1> QED BY <1>1, <1>2

\* An upload up to its storing: the same.
LEMMA DecodingKeeps ==
  ASSUME RequestsInv, NEW r \in Request, UNCHANGED intakeVars,
         Upload(r) \/ Acquire(r) \/ Reencode(r)
  PROVE  RequestsInv'
<1> USE SessionsAssumption DEF At, Kind, table, jars, Plain
<1>0. spent \subseteq Request
  BY DEF RequestsInv, TypeOK
<1>1. CASE Upload(r)
  <2>1. CASE Plain(r, "400")
    BY <1>0, <1>1, <2>1, AnswersKeep DEF Upload, Codes
  <2>2. CASE Goto(r, "wait") /\ UNCHANGED answer
    BY <1>0, <1>1, <2>2, GoingKeeps DEF Upload
  <2> QED BY <1>1, <2>1, <2>2 DEF Upload
<1>2. CASE Acquire(r)
  <2>1. Kind(r) = "upload"
    BY <1>2 DEF Acquire, RequestsInv, PlacesFit
  <2> QED BY <1>0, <1>2, <2>1, GoingKeeps DEF Acquire
<1>3. CASE Reencode(r)
  <2>1. ASSUME NEW code \in {"400", "413", "500"}, Plain(r, code)
        PROVE  RequestsInv'
    BY <1>0, <1>3, <2>1, AnswersKeep DEF Reencode, Codes
  <2>2. ASSUME Goto(r, "store"), UNCHANGED answer
        PROVE  RequestsInv'
    <3>1. Kind(r) = "upload"
      BY <1>3 DEF Reencode, RequestsInv, PlacesFit
    <3> QED BY <1>0, <1>3, <2>2, <3>1, GoingKeeps DEF Reencode
  <2> QED BY <1>3, <2>1, <2>2 DEF Reencode
<1> QED BY <1>1, <1>2, <1>3


\* A request takes the cookies its browser has: those of tokens that exist.
LEMMA SendKeeps ==
  ASSUME RequestsInv, NEW r \in Request, Send(r), UNCHANGED intakeVars
  PROVE  RequestsInv'
<1> USE SessionsAssumption, IntakeAssumption DEF RequestsInv, jars, table, intakeVars
<1>0. /\ pc[r] = "idle" /\ r \in DOMAIN job /\ job[r].by \in Browser
      /\ carry' = [carry EXCEPT ![r] = [session |-> cookie[job[r].by],
                                        flow |-> flow[job[r].by]]]
      /\ UNCHANGED <<job, who, answer, jars, table, spent>>
  BY DEF Send, At, TypeOK
<1>1. /\ pc' \in [Request -> Places]
      /\ pc'[r] = "sent"
      /\ \A q \in Request \ {r} : pc'[q] = pc[q]
  BY GotoFacts DEF Send, Places
<1>2. TypeOK'
  BY <1>0, <1>1 DEF TypeOK
<1>3. TokensMade'
  BY <1>0, <1>1 DEF TokensMade, MadeToken, Answered, TypeOK
<1>4. PlacesFit'
  BY <1>0, <1>1 DEF PlacesFit, InHandler, Admitted, Trusted, StateChanging,
     TooLarge, Kind, Valid, TypeOK
<1>5. Served' /\ LogoutIsFinal'
  BY <1>0, <1>1 DEF Served, LogoutIsFinal, InHandler, Answered, Live, Kind, TypeOK
<1>6. Stored'
  BY <1>0, <1>1 DEF Stored, AcceptedIsStored, Answered, Admitted, Trusted,
     StateChanging, TooLarge, Kind, Valid, TypeOK
<1>7. ErasedLate'
  BY DEF ErasedLate
<1>8. LimitKept'
  BY <1>0, <1>1, LimitStays
<1> QED BY <1>2, <1>3, <1>4, <1>5, <1>6, <1>7, <1>8

\* The visitor becomes the owner of the session, or is told of an error.
LEMMA ResolveSessionKeeps ==
  ASSUME RequestsInv, NEW r \in Request, ResolveSession(r), UNCHANGED intakeVars
  PROVE  RequestsInv'
<1> USE SessionsAssumption, IntakeAssumption DEF RequestsInv, jars, table, intakeVars
<1>1. CASE Plain(r, "500") /\ UNCHANGED <<job, carry, who, jars, table, spent>>
  BY <1>1, AnswersKeep DEF ResolveSession, At, Plain, Codes, TypeOK
<1>2. CASE Resolved(r, FindLive(carry[r].session))
  <2> DEFINE u == FindLive(carry[r].session)
  <2>0. /\ u \in User \cup {None}
        /\ Live(carry[r].session) => u = owner[carry[r].session]
    BY DEF FindLive, Live, TypeOK
  <2>1. /\ who' = [who EXCEPT ![r] = u] /\ pc[r] = "sent" /\ Admitted(r)
        /\ UNCHANGED <<job, carry, jars, table, spent>>
    BY <1>2 DEF Resolved, ResolveSession, At
  <2> HIDE DEF u
  <2>2. CASE ~(NeedsSession(r) /\ u = None)
    <3>1. /\ pc' \in [Request -> Places] /\ answer' = answer
          /\ pc'[r] = "handler"
          /\ \A q \in Request \ {r} : pc'[q] = pc[q]
      BY <1>2, <2>2, GotoFacts DEF Resolved, Places, u
    <3>2. TypeOK'
      BY <2>0, <2>1, <3>1 DEF TypeOK
    <3>3. TokensMade'
      BY <2>1, <3>1 DEF TokensMade, MadeToken, Answered
    <3>4. PlacesFit'
      BY <2>1, <3>1 DEF PlacesFit, InHandler, Admitted, Trusted, StateChanging,
         TooLarge, Kind, Valid
    <3>5. Served'
      BY <2>0, <2>1, <3>1 DEF Served, InHandler, Answered, Live, TypeOK
    <3>6. LogoutIsFinal' /\ ErasedLate'
      BY <2>1, <3>1 DEF LogoutIsFinal, Answered, Live, Kind, ErasedLate
    <3>7. Stored'
      BY <2>1, <3>1 DEF Stored, AcceptedIsStored, Answered, Admitted, Trusted,
         StateChanging, TooLarge, Kind, Valid, TypeOK
    <3>8. LimitKept'
      BY <2>1, <3>1, LimitStays
    <3> QED BY <3>2, <3>3, <3>4, <3>5, <3>6, <3>7, <3>8
  <2>3. CASE NeedsSession(r) /\ u = None
    <3>0. Reply(r, "401", Keep, Keep)
      BY <1>2, <2>3 DEF Resolved, Plain, u
    <3>1. /\ pc' \in [Request -> Places]
          /\ answer' \in [Request -> [code : Codes, session : Token \cup {None, Keep},
                                      flow : Request \cup {None, Keep}]]
          /\ pc'[r] = "answered"
          /\ answer'[r] = [code |-> "401", session |-> Keep, flow |-> Keep]
          /\ \A q \in Request \ {r} : pc'[q] = pc[q] /\ answer'[q] = answer[q]
      BY <3>0, ReplyFacts DEF Codes
    <3>2. TypeOK'
      BY <2>0, <2>1, <3>1 DEF TypeOK
    <3>3. TokensMade'
      BY <2>1, <3>1, TokensAfterReply
    <3>4. PlacesFit'
      BY <2>1, <3>1 DEF PlacesFit, InHandler, Admitted, Trusted, StateChanging,
         TooLarge, Kind, Valid
    <3>5. Served'
      BY <2>0, <2>1, <3>1 DEF Served, InHandler, Answered, Live, TypeOK
    <3>6. LogoutIsFinal' /\ ErasedLate'
      BY <2>1, <3>1 DEF LogoutIsFinal, Answered, Live, Kind, ErasedLate
    <3>7. Stored'
      BY <2>1, <3>1, StoredAfterReply DEF Answered
    <3>8. LimitKept'
      BY <2>1, <3>1, LimitStays
    <3> QED BY <3>2, <3>3, <3>4, <3>5, <3>6, <3>7, <3>8
  <2> QED BY <2>2, <2>3
<1> QED BY <1>1, <1>2 DEF ResolveSession

\* An answer of a request that may set its own session, while sessions are
\* made and deleted.
LEMMA SessionAnswerKeeps ==
  ASSUME RequestsInv, NEW r \in Request, NEW code \in Codes,
         NEW s \in {Keep, None, r}, NEW f \in {None, Keep}, Reply(r, code, s, f),
         UNCHANGED <<job, carry, who, jars, spent, intakeVars>>,
         pc[r] \in {"handler", "create"}, Kind(r) # "contact",
         Kind(r) = "logout" /\ code = "204" => ~Live(carry[r].session)',
         owner' \in [Token -> User \cup {None}], left' \in [Token -> Nat],
         \A t \in Token : MadeToken(t) =>
           owner'[t] \in {owner[t], None} /\ left'[t] <= left[t]
  PROVE  RequestsInv'
<1> USE SessionsAssumption, IntakeAssumption DEF RequestsInv, jars, intakeVars
<1>1. /\ pc' \in [Request -> Places]
      /\ answer' \in [Request -> [code : Codes, session : Token \cup {None, Keep},
                                  flow : Request \cup {None, Keep}]]
      /\ pc'[r] = "answered"
      /\ answer'[r] = [code |-> code, session |-> s, flow |-> f]
      /\ \A q \in Request \ {r} : pc'[q] = pc[q] /\ answer'[q] = answer[q]
  BY ReplyFacts DEF Token
<1>2. TypeOK'
  BY <1>1 DEF TypeOK
<1>3. TokensMade'
  BY <1>1, TokensAfterReply
<1>4. PlacesFit'
  BY <1>1 DEF PlacesFit, InHandler, Admitted, Trusted, StateChanging, TooLarge,
     Kind, Valid
<1>5. \A q \in Request : Live(carry[q].session)' =>
        Live(carry[q].session) /\ owner'[carry[q].session] = owner[carry[q].session]
  BY LiveBefore
<1>6. Served'
  BY <1>1, <1>5 DEF Served, InHandler, Answered
<1>7. LogoutIsFinal'
  BY <1>1, <1>5 DEF LogoutIsFinal, Answered, Kind
<1>8. Stored'
  BY <1>1, StoredAfterReply DEF Answered
<1>9. ErasedLate' /\ LimitKept'
  BY <1>1, LimitStays DEF ErasedLate
<1> QED BY <1>2, <1>3, <1>4, <1>6, <1>7, <1>8, <1>9

\* A session is given to a token that nobody carries yet.
LEMMA CreateSessionKeeps ==
  ASSUME RequestsInv, NEW r \in Request, CreateSession(r), UNCHANGED intakeVars
  PROVE  RequestsInv'
<1> USE SessionsAssumption DEF RequestsInv
<1>1. pc[r] = "create" /\ Kind(r) = "callback" /\ job[job[r].of].user \in User \cup {None}
  BY DEF CreateSession, At, PlacesFit, TypeOK, Kind
<1>2. /\ owner' \in {owner, [owner EXCEPT ![r] = job[job[r].of].user]}
      /\ left' \in {left, [left EXCEPT ![r] = TTL]}
      /\ Reply(r, "home", r, None) \/ Reply(r, "login_failed", Keep, None)
      /\ UNCHANGED <<job, carry, who, jars, spent>>
  BY DEF CreateSession
<1>3. owner' \in [Token -> User \cup {None}] /\ left' \in [Token -> Nat]
  BY <1>1, <1>2 DEF TypeOK
<1>4. \A t \in Token : MadeToken(t) => owner'[t] = owner[t] /\ left'[t] = left[t]
  BY <1>1, <1>2 DEF MadeToken, Answered, TypeOK, Token
<1>5. \A t \in Token : MadeToken(t) =>
        owner'[t] \in {owner[t], None} /\ left'[t] <= left[t]
  BY <1>4 DEF TypeOK
<1> QED BY <1>1, <1>2, <1>3, <1>5, SessionAnswerKeeps DEF Codes

\* A logout that is answered with 204 has removed the row.
LEMMA LogoutKeeps ==
  ASSUME RequestsInv, NEW r \in Request, Logout(r), UNCHANGED intakeVars
  PROVE  RequestsInv'
<1> USE SessionsAssumption DEF RequestsInv
<1>1. /\ pc[r] = "handler" /\ Kind(r) = "logout"
      /\ owner' \in {owner, [owner EXCEPT ![carry[r].session] = None]}
      /\ UNCHANGED <<job, carry, who, jars, left, spent>>
  BY DEF Logout, At
<1>2. owner' \in [Token -> User \cup {None}] /\ left' \in [Token -> Nat]
  BY <1>1 DEF TypeOK
<1>3. \A t \in Token : owner'[t] \in {owner[t], None} /\ left'[t] <= left[t]
  BY <1>1 DEF TypeOK
<1>4. CASE Reply(r, "204", None, Keep) /\ owner' = [owner EXCEPT ![carry[r].session] = None]
  <2>1. ~Live(carry[r].session)'
    BY <1>1, <1>4 DEF Live, TypeOK
  <2> QED BY <1>1, <1>2, <1>3, <1>4, <2>1, SessionAnswerKeeps DEF Codes
<1>5. CASE Plain(r, "500")
  BY <1>1, <1>2, <1>3, <1>5, SessionAnswerKeeps DEF Codes, Plain
<1> QED BY <1>4, <1>5 DEF Logout

\* The browser takes the cookies of an answer, or does not.
LEMMA ReceiveKeeps ==
  ASSUME RequestsInv, NEW r \in Request, Receive(r) \/ Lose(r), UNCHANGED intakeVars
  PROVE  RequestsInv'
<1> USE SessionsAssumption, IntakeAssumption DEF RequestsInv, table, intakeVars
<1>1. /\ pc[r] = "answered" /\ UNCHANGED <<job, carry, who, answer, table, spent>>
      /\ Goto(r, "done")
  BY DEF Receive, Lose, At
<1>2. /\ pc' \in [Request -> Places]
      /\ pc'[r] = "done"
      /\ \A q \in Request \ {r} : pc'[q] = pc[q]
  BY <1>1, GotoFacts DEF Places
<1>3. /\ cookie' \in [Browser -> Token \cup {None}]
      /\ flow' \in [Browser -> Request \cup {None}]
      /\ \A b \in Browser : cookie'[b] \in {cookie[b], answer[r].session}
  BY DEF Receive, Lose, After, jars, TypeOK
<1>4. TypeOK'
  BY <1>1, <1>2, <1>3 DEF TypeOK
<1>5. \A q \in Request : Answered(q) <=> Answered(q)'
  BY <1>1, <1>2 DEF Answered
<1>6. TokensMade'
  BY <1>1, <1>3, <1>5 DEF TokensMade, MadeToken
<1>7. PlacesFit'
  BY <1>1, <1>2 DEF PlacesFit, InHandler, Admitted, Trusted, StateChanging,
     TooLarge, Kind, Valid
<1>8. Served' /\ LogoutIsFinal'
  BY <1>1, <1>2, <1>5 DEF Served, LogoutIsFinal, InHandler, Live, Kind
<1>9. Stored'
  BY <1>1, <1>5 DEF Stored, AcceptedIsStored, Admitted, Trusted, StateChanging,
     TooLarge, Kind, Valid, TypeOK
<1>10. ErasedLate' /\ LimitKept'
  BY <1>1, <1>2, LimitStays DEF ErasedLate
<1> QED BY <1>4, <1>6, <1>7, <1>8, <1>9, <1>10

\* The cookies of a login are dropped.
LEMMA FlowLapsesKeeps ==
  ASSUME RequestsInv, NEW b \in Browser, FlowLapses(b), UNCHANGED intakeVars
  PROVE  RequestsInv'
<1> USE DEF RequestsInv, FlowLapses, requests, table, intakeVars
<1>1. TypeOK'
  BY DEF TypeOK
<1>2. TokensMade' /\ PlacesFit' /\ Served' /\ LogoutIsFinal' /\ Stored' /\ ErasedLate'
  BY DEF TokensMade, MadeToken, PlacesFit, Served, LogoutIsFinal, Stored,
     AcceptedIsStored, ErasedLate, InHandler, Answered, Live, Admitted, Trusted,
     StateChanging, TooLarge, Kind, Valid
<1>3. LimitKept'
  BY LimitStays
<1> QED BY <1>1, <1>2, <1>3

\* Sessions that end by themselves, by time or by the cleaning job.
LEMMA SessionsEndKeeps ==
  ASSUME RequestsInv, UNCHANGED <<requests, jars, spent, filed>>,
         owner' \in [Token -> User \cup {None}], left' \in [Token -> Nat],
         \A t \in Token : owner'[t] \in {owner[t], None} /\ left'[t] <= left[t],
         age' \in [Request -> Nat], erased' \subseteq Request, UNCHANGED peak
  PROVE  TypeOK' /\ TokensMade' /\ PlacesFit' /\ Served' /\ LogoutIsFinal' /\ Stored'
<1> USE DEF RequestsInv, requests, jars
<1>1. TypeOK'
  BY DEF TypeOK
<1>2. TokensMade' /\ PlacesFit' /\ Stored'
  BY DEF TokensMade, MadeToken, PlacesFit, Stored, AcceptedIsStored, InHandler,
     Answered, Admitted, Trusted, StateChanging, TooLarge, Kind, Valid
<1>3. \A q \in Request : Live(carry[q].session)' =>
        Live(carry[q].session) /\ owner'[carry[q].session] = owner[carry[q].session]
  BY LiveBefore
<1>4. Served' /\ LogoutIsFinal'
  BY <1>3 DEF Served, LogoutIsFinal, InHandler, Answered, Kind
<1> QED BY <1>1, <1>2, <1>4

\* Only expired sessions are deleted.
LEMMA DeleteExpiredKeeps ==
  ASSUME RequestsInv, DeleteExpired, UNCHANGED intakeVars
  PROVE  RequestsInv'
<1> USE DEF RequestsInv, intakeVars
<1>1. /\ owner' \in [Token -> User \cup {None}]
      /\ \A t \in Token : owner'[t] \in {owner[t], None}
      /\ UNCHANGED <<requests, jars, left, spent>>
  BY DEF DeleteExpired, TypeOK
<1>2. \A t \in Token : left'[t] <= left[t]
  BY <1>1 DEF TypeOK
<1>3. TypeOK' /\ TokensMade' /\ PlacesFit' /\ Served' /\ LogoutIsFinal' /\ Stored'
  BY <1>1, <1>2, SessionsEndKeeps DEF TypeOK
<1>4. ErasedLate'
  BY DEF ErasedLate
<1>5. LimitKept'
  BY <1>1, LimitStays DEF requests
<1> QED BY <1>3, <1>4, <1>5

\* Only old rows lose their address.
LEMMA ScrubKeeps ==
  ASSUME RequestsInv, ScrubClientIPs
  PROVE  RequestsInv'
<1> USE DEF RequestsInv, ScrubClientIPs, sessionVars, table
<1>1. erased' \subseteq Request /\ UNCHANGED <<sessionVars, filed, age, peak>>
  BY DEF Erasable, TypeOK
<1>2. \A t \in Token : owner'[t] = owner[t] /\ left'[t] <= left[t]
  BY <1>1 DEF TypeOK
<1>3. TypeOK' /\ TokensMade' /\ PlacesFit' /\ Served' /\ LogoutIsFinal' /\ Stored'
  BY <1>1, <1>2, SessionsEndKeeps DEF TypeOK
<1>4. ErasedLate'
  BY IntakeAssumption DEF ErasedLate, Erasable, TypeOK
<1>5. LimitKept'
  BY <1>1, LimitStays DEF requests
<1> QED BY <1>3, <1>4, <1>5

\* Counting what is stored and about to be.
LEMMA CountIsFinite ==
  ASSUME TypeOK, NEW a
  PROVE  /\ IsFiniteSet(SentLately(a)) /\ IsFiniteSet(Between(a))
         /\ Cardinality(SentLately(a)) \in Nat /\ Cardinality(Between(a)) \in Nat
<1>1. SentLately(a) \subseteq Request /\ Between(a) \subseteq Request
  BY DEF SentLately, Between, TypeOK
<1> QED BY <1>1, SessionsAssumption, FS_Subset, FS_CardinalityType

\* Time ages the rows: less is counted.
LEMMA TickKeeps ==
  ASSUME RequestsInv, Tick
  PROVE  RequestsInv'
<1> USE DEF RequestsInv
<1>0. UNCHANGED <<requests, jars, owner, spent, filed, erased, peak>>
  BY DEF Tick
<1>1. left' \in [Token -> Nat] /\ \A t \in Token : left'[t] <= left[t]
  BY DEF Tick, SessionsAge, Down, TypeOK
<1>2. Oldest \in Nat /\ Retention <= Oldest /\ Window <= Oldest
  BY IntakeAssumption DEF Oldest
<1>3. /\ age' \in [Request -> Nat]
      /\ \A q \in Request : q \notin filed => age'[q] = 0
      /\ \A q \in filed : age'[q] = Lesser(age[q] + 1, Oldest)
  BY <1>2 DEF Tick, IntakeAges, Lesser, TypeOK
<1>4. TypeOK' /\ TokensMade' /\ PlacesFit' /\ Served' /\ LogoutIsFinal' /\ Stored'
  BY <1>0, <1>1, <1>3, SessionsEndKeeps DEF TypeOK
<1>5. ErasedLate'
  <2>1. ASSUME NEW q \in erased
        PROVE  age'[q] >= Retention
    <3>1. CASE q \in filed
      BY <1>2, <1>3, <2>1, <3>1, IntakeAssumption DEF ErasedLate, Lesser, TypeOK
    <3>2. CASE q \notin filed
      BY <1>3, <2>1, <3>2 DEF ErasedLate, TypeOK
    <3> QED BY <3>1, <3>2
  <2> QED BY <1>0, <1>3, <2>1 DEF ErasedLate
<1>6. LimitKept'
  <2> SUFFICES ASSUME Window <= Retention, NEW a \in Addr
               PROVE  (Counted(a) < RateMax + Higher(peak[a], 1))'
    BY DEF LimitKept
  <2>1. SentLately(a)' \subseteq SentLately(a)
    BY <1>0, <1>2, <1>3, IntakeAssumption
       DEF SentLately, Address, Lesser, requests, TypeOK
  <2>2. Between(a)' = Between(a)
    BY <1>0 DEF Between, Address, requests
  <2>3. Cardinality(SentLately(a)') <= Cardinality(SentLately(a))
    BY <2>1, CountIsFinite, FS_Subset
  <2>4. /\ Cardinality(SentLately(a)) \in Nat /\ Cardinality(Between(a)) \in Nat
        /\ Cardinality(SentLately(a)') \in Nat
    BY <2>1, CountIsFinite, FS_Subset, FS_CardinalityType
  <2>5. Counted(a) < RateMax + Higher(peak[a], 1)
    BY DEF LimitKept
  <2> QED BY <1>0, <2>2, <2>3, <2>4, <2>5, IntakeAssumption DEF Counted, Higher, TypeOK
<1> QED BY <1>4, <1>5, <1>6

\* Passing the limit is counted before the row is stored.
LEMMA PassKeeps ==
  ASSUME RequestsInv, NEW r \in Request, pc[r] = "handler", Kind(r) = "contact",
         Valid(r), UnderRateLimit(Address(r)), Pass(r),
         UNCHANGED <<job, carry, who, jars, table, spent>>
  PROVE  RequestsInv'
<1> USE SessionsAssumption, IntakeAssumption DEF RequestsInv, jars, table
<1>1. /\ pc' \in [Request -> Places]
      /\ pc'[r] = "save"
      /\ \A q \in Request \ {r} : pc'[q] = pc[q]
  BY GotoFacts DEF Pass, Places
<1>2. UNCHANGED <<answer, filed, age, erased>>
  BY DEF Pass
<1>3. \A a \in Addr : Cardinality(Between(a) \cup {r}) \in Nat
  BY CountIsFinite, FS_AddElement, FS_CardinalityType
<1>4. /\ peak' \in [Addr -> Nat]
      /\ \A a \in Addr : IF a = Address(r)
                         THEN peak'[a] = Higher(peak[a], Cardinality(Between(a) \cup {r}))
                         ELSE peak'[a] = peak[a]
  BY <1>3 DEF Pass, Higher, TypeOK
<1>5. TypeOK'
  BY <1>1, <1>2, <1>4 DEF TypeOK
<1>6. TokensMade'
  BY <1>1, <1>2 DEF TokensMade, MadeToken, Answered
<1>7. PlacesFit'
  BY <1>1 DEF PlacesFit, InHandler, Admitted, Trusted, StateChanging, TooLarge,
     Kind, Valid
<1>8. Served' /\ LogoutIsFinal' /\ ErasedLate'
  BY <1>1, <1>2 DEF Served, LogoutIsFinal, ErasedLate, InHandler, Answered, Live, Kind
<1>9. Stored'
  BY <1>1, <1>2 DEF Stored, AcceptedIsStored, Answered, Admitted, Trusted,
     StateChanging, TooLarge, Kind, Valid, TypeOK
<1>10. LimitKept'
  <2> SUFFICES ASSUME Window <= Retention, NEW a \in Addr
               PROVE  (Counted(a) < RateMax + Higher(peak[a], 1))'
    BY DEF LimitKept
  <2>1. SentLately(a)' = SentLately(a)
    BY <1>2 DEF SentLately, Address
  <2>2. CASE a # Address(r)
    <3>1. Between(a)' = Between(a)
      BY <1>1, <2>2 DEF Between, Address
    <3> QED BY <1>4, <2>1, <2>2, <3>1 DEF LimitKept, Counted
  <2>3. CASE a = Address(r)
    <3>1. Between(a)' = Between(a) \cup {r}
      BY <1>1, <2>3 DEF Between, Address
    <3>2. Recent(a) = SentLately(a)
      BY DEF Recent, SentLately, ErasedLate, TypeOK
    <3>3. Cardinality(SentLately(a)) < RateMax
      BY <2>3, <3>2 DEF UnderRateLimit
    <3>4. Cardinality(Between(a)') <= peak'[a]
      BY <1>3, <1>4, <2>3, <3>1 DEF Higher, TypeOK
    <3>5. Cardinality(SentLately(a)) \in Nat /\ Cardinality(Between(a)') \in Nat
      BY <1>3, <3>1, CountIsFinite
    <3> QED BY <1>4, <2>1, <3>3, <3>4, <3>5 DEF Counted, Higher
  <2> QED BY <2>2, <2>3
<1> QED BY <1>5, <1>6, <1>7, <1>8, <1>9, <1>10

\* A submission is refused, or passes the limit.
LEMMA SubmitKeeps ==
  ASSUME RequestsInv, NEW r \in Request, Submit(r)
  PROVE  RequestsInv'
<1>1. /\ pc[r] = "handler" /\ Kind(r) = "contact"
      /\ UNCHANGED <<job, carry, who, jars, table, spent>> /\ spent \subseteq Request
  BY DEF Submit, At, RequestsInv, TypeOK
<1>2. ASSUME NEW code \in {"202", "400", "429", "500"}, Refuse(r, code),
             code = "202" => ~Valid(r)
      PROVE  RequestsInv'
  BY <1>1, <1>2, AnswersKeep DEF Refuse, Plain, Codes
<1>3. CASE Valid(r) /\ UnderRateLimit(Address(r)) /\ Pass(r)
  BY <1>1, <1>3, PassKeeps
<1> QED BY <1>2, <1>3 DEF Submit, Valid

\* A row is stored with the answer, and the submission no longer in between.
LEMMA SaveKeeps ==
  ASSUME RequestsInv, NEW r \in Request, Save(r)
  PROVE  RequestsInv'
<1> USE SessionsAssumption, IntakeAssumption DEF RequestsInv, jars, table
<1>0. PICK code \in {"202", "500"} :
        /\ Reply(r, code, Keep, Keep)
        /\ filed' \in {filed, filed \cup {r}} /\ (code = "202" => r \in filed')
  BY DEF Save, Plain
<1>1. /\ pc[r] = "save" /\ Kind(r) = "contact" /\ Valid(r) /\ Admitted(r)
      /\ r \notin filed /\ age[r] = 0
      /\ UNCHANGED <<job, carry, who, jars, table, spent, age, erased, peak>>
  BY DEF Save, At, PlacesFit, InHandler, Stored, Answered, ErasedLate
<1>2. /\ pc' \in [Request -> Places]
      /\ answer' \in [Request -> [code : Codes, session : Token \cup {None, Keep},
                                  flow : Request \cup {None, Keep}]]
      /\ pc'[r] = "answered"
      /\ answer'[r] = [code |-> code, session |-> Keep, flow |-> Keep]
      /\ \A q \in Request \ {r} : pc'[q] = pc[q] /\ answer'[q] = answer[q]
  BY <1>0, ReplyFacts DEF Codes
<1>3. TypeOK'
  BY <1>0, <1>1, <1>2 DEF TypeOK
<1>4. TokensMade'
  BY <1>1, <1>2, TokensAfterReply
<1>5. PlacesFit'
  BY <1>1, <1>2 DEF PlacesFit, InHandler, Admitted, Trusted, StateChanging, TooLarge,
     Kind, Valid
<1>6. Served' /\ LogoutIsFinal'
  BY <1>1, <1>2 DEF Served, LogoutIsFinal, InHandler, Answered, Live, Kind
<1>7. Stored'
  <2>1. /\ \A q \in Request : Kind(q)' = Kind(q) /\ Valid(q)' = Valid(q)
        /\ \A q \in Request : Admitted(q)' = Admitted(q)
    BY <1>1 DEF Admitted, Trusted, StateChanging, TooLarge, Kind, Valid
  <2>2. \A q \in filed' : Answered(q)' /\ Admitted(q) /\ Valid(q)
    BY <1>0, <1>1, <1>2 DEF Stored, AcceptedIsStored, Answered, TypeOK
  <2>3. ASSUME NEW q \in Request, Answered(q)', Kind(q) = "contact",
               answer'[q].code # "500"
        PROVE  q \in filed' <=> answer'[q].code = "202" /\ Valid(q)
    <3>1. CASE q = r
      BY <1>0, <1>1, <1>2, <2>3, <3>1
    <3>2. CASE q # r
      BY <1>0, <1>2, <2>3, <3>2 DEF Stored, AcceptedIsStored, Answered
    <3> QED BY <3>1, <3>2
  <2> QED BY <1>3, <2>1, <2>2, <2>3 DEF Stored, AcceptedIsStored, TypeOK
<1>8. ErasedLate'
  BY <1>0, <1>1 DEF ErasedLate
<1>9. LimitKept'
  <2> SUFFICES ASSUME Window <= Retention, NEW a \in Addr
               PROVE  (Counted(a) < RateMax + Higher(peak[a], 1))'
    BY DEF LimitKept
  <2>1. CASE a # Address(r)
    <3>1. Between(a)' = Between(a) /\ SentLately(a)' = SentLately(a)
      BY <1>0, <1>1, <1>2, <2>1 DEF Between, SentLately, Address
    <3> QED BY <1>1, <3>1 DEF LimitKept, Counted
  <2>2. CASE a = Address(r)
    <3>1. Between(a)' = Between(a) \ {r} /\ r \in Between(a)
      BY <1>1, <1>2, <2>2 DEF Between, Address
    <3>2. SentLately(a)' \in {SentLately(a), SentLately(a) \cup {r}}
      BY <1>0, <1>1, <2>2 DEF SentLately, Address
    <3>3. r \notin SentLately(a)
      BY <1>1 DEF SentLately
    <3>4. Cardinality(Between(a)') = Cardinality(Between(a)) - 1
      BY <3>1, CountIsFinite, FS_RemoveElement
    <3>5. Cardinality(SentLately(a) \cup {r}) = Cardinality(SentLately(a)) + 1
      BY <3>3, CountIsFinite, FS_AddElement
    <3>6. Cardinality(SentLately(a)) \in Nat /\ Cardinality(Between(a)) \in Nat
      BY CountIsFinite
    <3>7. /\ Cardinality(SentLately(a)') \in Nat
          /\ Cardinality(SentLately(a)') <= Cardinality(SentLately(a)) + 1
      <4>1. Cardinality(SentLately(a)') = Cardinality(SentLately(a))
              \/ Cardinality(SentLately(a)') = Cardinality(SentLately(a) \cup {r})
        BY <3>2, Zenon
      <4> QED BY <3>5, <3>6, <4>1
    <3>8. Counted(a)' <= Counted(a)
      BY <3>4, <3>6, <3>7 DEF Counted
    <3>9. Counted(a) \in Nat /\ Counted(a)' \in Nat
      BY <3>1, <3>4, <3>6, <3>7, CountIsFinite, FS_RemoveElement, FS_CardinalityType
         DEF Counted
    <3> QED BY <1>1, <3>8, <3>9 DEF LimitKept, Higher, TypeOK
  <2> QED BY <2>1, <2>2
<1> QED BY <1>3, <1>4, <1>5, <1>6, <1>7, <1>8, <1>9

\* Nothing is under way at the start.
LEMMA RequestsInit == Init => RequestsInv
<1> SUFFICES ASSUME Init PROVE RequestsInv
  OBVIOUS
<1> USE SessionsAssumption, IntakeAssumption DEF Init, SessionsInit, IntakeInit
<1>1. TypeOK
  <2>1. PICK s \in Scenes :
          /\ job = s.job
          /\ cookie = [b \in Browser |-> IF s.user[b] = None THEN None ELSE b]
          /\ owner = [t \in Token |-> IF t \in Browser THEN s.user[t] ELSE None]
    OBVIOUS
  <2>2. owner \in [Token -> User \cup {None}] /\ cookie \in [Browser -> Token \cup {None}]
    BY <2>1 DEF Token
  <2>3. left \in [Token -> Nat] /\ pc \in [Request -> Places]
    BY DEF Places
  <2>4. answer \in [Request -> [code : Codes, session : Token \cup {None, Keep},
                                flow : Request \cup {None, Keep}]]
    BY DEF Nothing, Codes
  <2> QED BY <2>1, <2>2, <2>3, <2>4 DEF TypeOK
<1>2. TokensMade
  <2>1. \A b \in Browser : cookie[b] \in Browser \cup {None}
    OBVIOUS
  <2> QED BY <2>1 DEF TokensMade, MadeToken, Nothing, Token
<1>3. PlacesFit /\ Served /\ LogoutIsFinal /\ Stored /\ ErasedLate
  BY DEF PlacesFit, Served, LogoutIsFinal, Stored, AcceptedIsStored, ErasedLate,
     InHandler, Answered
<1>4. LimitKept
  <2>1. ASSUME NEW a \in Addr
        PROVE  SentLately(a) = {} /\ Between(a) = {}
    BY DEF SentLately, Between
  <2>2. Cardinality({}) = 0
    BY FS_EmptySet
  <2>3. \A a \in Addr : peak[a] = 0 /\ Counted(a) = 0
    <3>1. \A a \in Addr : Cardinality(SentLately(a)) = 0 /\ Cardinality(Between(a)) = 0
      BY <2>1, <2>2, Zenon
    <3> QED BY <3>1 DEF Counted
  <2> QED BY <2>3 DEF LimitKept, Higher
<1> QED BY <1>1, <1>2, <1>3, <1>4 DEF RequestsInv

\* Every step of a request, a browser, the jobs or the clock keeps it.
LEMMA RequestsStep == RequestsInv /\ [Next]_vars => RequestsInv'
<1> SUFFICES ASSUME RequestsInv, [Next]_vars PROVE RequestsInv'
  OBVIOUS
<1>1. CASE SessionsNext /\ UNCHANGED intakeVars
  <2>1. ASSUME NEW r \in Request, SessionStep(r)
        PROVE  RequestsInv'
    BY <1>1, <2>1, SendKeeps, AnswersOnly, ResolveSessionKeeps, CallbackKeeps,
       CreateSessionKeeps, LogoutKeeps, ReceiveKeeps DEF SessionStep
  <2> QED BY <1>1, <2>1, FlowLapsesKeeps, DeleteExpiredKeeps DEF SessionsNext
<1>2. CASE IntakeNext
  BY <1>2, SubmitKeeps, SaveKeeps, ScrubKeeps DEF IntakeNext
<1>3. CASE DecodingNext /\ UNCHANGED intakeVars
  BY <1>3, DecodingKeeps, AnswersOnly DEF DecodingNext
<1>4. CASE Tick
  BY <1>4, TickKeeps
<1>5. CASE UNCHANGED vars
  <2> USE <1>5 DEF vars, sessionVars, intakeVars, requests, jars, table, RequestsInv
  <2>1. TypeOK'
    BY DEF TypeOK
  <2>2. /\ TokensMade' /\ PlacesFit' /\ Served' /\ LogoutIsFinal' /\ Stored'
        /\ ErasedLate'
    BY DEF TokensMade, MadeToken, PlacesFit, Served, LogoutIsFinal, Stored,
       AcceptedIsStored, ErasedLate, InHandler, Answered, Live, Admitted, Trusted,
       StateChanging, TooLarge, Kind, Valid
  <2>3. LimitKept'
    BY LimitStays
  <2> QED BY <2>1, <2>2, <2>3
<1> QED BY <1>1, <1>2, <1>3, <1>4, <1>5 DEF Next

\* The invariant holds in every state of every behaviour.
THEOREM RequestsAlways == Spec => []RequestsInv
<1>1. Init => RequestsInv
  BY RequestsInit
<1>2. RequestsInv /\ [Next]_vars => RequestsInv'
  BY RequestsStep
<1> QED BY <1>1, <1>2, PTL DEF Spec

\* Whoever carries a live session is served as its owner or told of an error,
\* whatever else is under way.
THEOREM ServedAsOwner == Spec => []SignedIn
<1>1. RequestsInv => SignedIn
  BY DEF RequestsInv, Served, SignedIn
<1> QED BY <1>1, RequestsAlways, PTL

\* A token is worth nothing once a logout of it was answered.
THEOREM LoggedOutForGood == Spec => []LogoutIsFinal
<1>1. RequestsInv => LogoutIsFinal
  BY DEF RequestsInv
<1> QED BY <1>1, RequestsAlways, PTL

\* What the form says is what happened.
THEOREM FormTellsTruth == Spec => []AcceptedIsStored
<1>1. RequestsInv => AcceptedIsStored
  BY DEF RequestsInv, Stored
<1> QED BY <1>1, RequestsAlways, PTL

\* The limit is exceeded by no more than what was in between, for any number
\* of submissions, any limit and any window that addresses are kept for.
THEOREM LimitIsKept == Spec => []LimitHolds
<1>1. RequestsInv => LimitHolds
  <2> SUFFICES ASSUME RequestsInv, Window <= Retention, NEW a \in Addr
               PROVE  Cardinality(SentLately(a)) < RateMax + Higher(peak[a], 1)
    BY DEF LimitHolds
  <2>1. Cardinality(SentLately(a)) \in Nat /\ Cardinality(Between(a)) \in Nat
    BY CountIsFinite DEF RequestsInv
  <2> QED BY <2>1, IntakeAssumption DEF RequestsInv, LimitKept, Counted, Higher, TypeOK
<1> QED BY <1>1, RequestsAlways, PTL

-----------------------------------------------------------------------------
(* The memory of the decoders.                                             *)

\* Products grow with their sides.
LEMMA ProductGrows ==
  ASSUME NEW a \in Nat, NEW b \in Nat, NEW c \in Nat, NEW d \in Nat, a <= c, b <= d
  PROVE  a * b <= c * d
<1>1. a * b <= c * b
  OBVIOUS
<1>2. c * b <= c * d
  OBVIOUS
<1> QED BY <1>1, <1>2

\* The shorter side of what is decoded is 5000 at most.
LEMMA ShorterSide ==
  ASSUME NEW a \in Nat, NEW b \in Nat, a <= b, a * b <= MaxPixels
  PROVE  a <= 5000
<1> SUFFICES ASSUME a >= 5001 PROVE FALSE
  BY SMT
<1>1. 5001 * 5001 <= a * b
  BY ProductGrows, SMT
<1> QED BY <1>1, SMT DEF MaxPixels

\* What a quotient is.
LEMMA Quotient ==
  ASSUME NEW a \in Nat, NEW b \in Nat \ {0}
  PROVE  /\ a \div b \in Nat
         /\ b * (a \div b) <= a
         /\ a < b * (a \div b) + b
OBVIOUS

\* The squares around 25 million.
LEMMA SquareAbove ==
  ASSUME NEW n \in Nat, n >= 5001
  PROVE  n * n >= 25010001
<1>1. n * n >= 5001 * n
  BY SMT
<1> QED BY <1>1, SMT

LEMMA SquareBelow ==
  ASSUME NEW n \in Nat, n <= 4999
  PROVE  (n + 1) * (n + 1) <= 25000000
<1>1. n * n <= 4999 * n
  BY SMT
<1>2. (n + 1) * (n + 1) = n * n + 2 * n + 1
  BY SMT
<1> QED BY <1>1, <1>2, SMT

\* The root of 25 million.
LEMMA RootIs == Root = 5000
<1>1. 5000 \in 0 .. 6000 /\ 5000 * 5000 <= MaxPixels /\ (5000 + 1) * (5000 + 1) > MaxPixels
  BY SMT DEF MaxPixels
<1>2. ASSUME NEW n \in 0 .. 6000, n * n <= MaxPixels, (n + 1) * (n + 1) > MaxPixels
      PROVE  n = 5000
  <2>1. n \in Nat
    OBVIOUS
  <2>2. n * n \in Int /\ (n + 1) * (n + 1) \in Int
    BY <2>1
  <2>3. ASSUME n >= 5001 PROVE FALSE
    <3>1. n * n >= 25010001
      BY <2>1, <2>3, SquareAbove, SMT
    <3> QED BY <1>2, <2>2, <3>1, SMT DEF MaxPixels
  <2>4. ASSUME n <= 4999 PROVE FALSE
    <3>1. (n + 1) * (n + 1) <= 25000000
      BY <2>1, <2>4, SquareBelow, SMT
    <3> QED BY <1>2, <2>2, <3>1, SMT DEF MaxPixels
  <2> QED BY <2>1, <2>3, <2>4, SMT
<1> QED BY <1>1, <1>2 DEF Root

\* The estimate, and that the budget has room for it.
LEMMA EstimateIs ==
  /\ EstimatedPeakBytesPerDecode = 466240000
  /\ DecodeMemoryBudget = 644245092
<1>1. 1073741824 \div 10 = 107374182
  BY SMT
<1> QED
  BY <1>1, RootIs, SMT
  DEF EstimatedPeakBytesPerDecode, DecodeMemoryBudget, MaxPixels, MaxDimension

\* What the parts come to.
LEMMA EstimateCovers ==
  ASSUME NEW a \in Nat, NEW b \in Nat, NEW c \in Nat,
         a <= MaxPixels, b <= MaxDimension * 5000, c <= MaxDimension * MaxDimension
  PROVE  /\ 8 * a + 32 * b + 4 * c \in Nat
         /\ 8 * a + 32 * b + 4 * c <= EstimatedPeakBytesPerDecode
<1>1. 8 * a <= 200000000 /\ 32 * b <= 256000000 /\ 4 * c <= 10240000
  BY SMT DEF MaxPixels, MaxDimension
<1>2. 8 * a + 32 * b + 4 * c <= 466240000
  BY <1>1, SMT
<1>3. 8 * a + 32 * b + 4 * c \in Nat
  OBVIOUS
<1> QED BY <1>2, <1>3, EstimateIs, SMT

\* The result has the length that was asked for, at most.
ResultFits(i) ==
  LET out == ResizeToFit(i) IN
    /\ Width(out) \in Nat /\ Width(out) <= MaxDimension
    /\ Height(out) \in Nat /\ Height(out) <= MaxDimension

\* The width of the result need not be rounded up to one.
NotThin(i) == Height(i) <= MaxDimension * Width(i)

\* The estimate bounds what it counts, but for images that are too thin: with
\* the wide side at its maximum the buffer of the scaler has 5000 rows at
\* most; with the high side at its maximum the width of the result goes down
\* as the source gets higher.
LEMMA CountedBound ==
  ASSUME NEW i \in Int \X Int, Decodable(i), NotThin(i)
  PROVE  /\ CountedBytes(i) \in Nat /\ CountedBytes(i) <= EstimatedPeakBytesPerDecode
         /\ ~Fits(i) => ResultFits(i)
<1> DEFINE w == Width(i)
           h == Height(i)
           out == ResizeToFit(i)
<1>1. w \in Nat \ {0} /\ h \in Nat \ {0} /\ w * h <= MaxPixels /\ w * h \in Nat
  BY DEF Decodable, Pixels, Width, Height
<1>3. CASE Fits(i)
  <2>1. CountedBytes(i) = 8 * (w * h) + 32 * 0 + 4 * 0
    BY <1>1, <1>3 DEF CountedBytes, ScratchBytes, Pixels
  <2> HIDE DEF w, h
  <2>2. 0 <= MaxDimension * 5000 /\ 0 <= MaxDimension * MaxDimension
    BY SMT DEF MaxDimension
  <2> QED BY <1>1, <1>3, <2>1, <2>2, EstimateCovers
<1>4. ASSUME ~Fits(i), Width(out) \in Nat, Height(out) \in Nat,
             Width(out) * h <= MaxDimension * 5000,
             Width(out) <= MaxDimension, Height(out) <= MaxDimension
      PROVE  /\ CountedBytes(i) \in Nat /\ CountedBytes(i) <= EstimatedPeakBytesPerDecode
             /\ ResultFits(i)
  <2>1. Pixels(out) \in Nat /\ Pixels(out) <= MaxDimension * MaxDimension
    BY <1>4, ProductGrows, SMT DEF Pixels, MaxDimension
  <2>2. Width(out) * h \in Nat
    BY <1>1, <1>4
  <2>3. CountedBytes(i) = 8 * (w * h) + 32 * (Width(out) * h) + 4 * Pixels(out)
    <3>1. CountedBytes(i) = 8 * (w * h) + 32 * Width(out) * h + 4 * Pixels(out)
      BY <1>4 DEF CountedBytes, ScratchBytes, Pixels
    <3>2. 32 * Width(out) * h = 32 * (Width(out) * h)
      BY <1>1, <1>4
    <3> HIDE DEF w, h, out
    <3> QED BY <1>1, <2>1, <2>2, <3>1, <3>2
  <2>4. ResultFits(i)
    BY <1>4 DEF ResultFits
  <2> HIDE DEF w, h, out
  <2> QED BY <1>1, <1>4, <2>1, <2>2, <2>3, <2>4, EstimateCovers
<1>5. CASE ~Fits(i) /\ w >= h
  <2> DEFINE q == (h * MaxDimension) \div w
  <2>1. Width(out) = MaxDimension /\ Height(out) = AtLeastOne(q)
    BY <1>5 DEF ResizeToFit, Width, Height
  <2>2. q \in Nat /\ w * q <= h * MaxDimension
    BY <1>1, Quotient, SMT DEF MaxDimension
  <2>3. q <= MaxDimension
    <3> HIDE DEF q
    <3> SUFFICES ASSUME q >= MaxDimension + 1 PROVE FALSE
      BY <2>2, SMT DEF MaxDimension
    <3>1. h * (MaxDimension + 1) <= w * q
      BY <1>1, <1>5, <2>2, ProductGrows, SMT DEF MaxDimension
    <3> QED BY <1>1, <2>2, <3>1, SMT DEF MaxDimension
  <2>4. h <= 5000
    BY <1>1, <1>5, ShorterSide, SMT
  <2> HIDE DEF q, out
  <2> QED BY <1>1, <1>4, <1>5, <2>1, <2>2, <2>3, <2>4, SMT DEF AtLeastOne, MaxDimension
<1>6. CASE ~Fits(i) /\ w < h
  <2> DEFINE q == (w * MaxDimension) \div h
  <2>1. Width(out) = AtLeastOne(q) /\ Height(out) = MaxDimension
    BY <1>1, <1>6 DEF ResizeToFit, Width, Height
  <2>2. q \in Nat /\ h * q <= w * MaxDimension /\ w * MaxDimension < h * q + h
    BY <1>1, Quotient, SMT DEF MaxDimension
  <2>3. w * MaxDimension >= h
    BY <1>1, SMT DEF NotThin, MaxDimension
  <2>4. q >= 1
    <3> HIDE DEF q
    <3> SUFFICES ASSUME q = 0 PROVE FALSE
      BY <2>2
    <3>1. h * q = 0
      BY <1>1
    <3> QED BY <1>1, <2>2, <2>3, <3>1, SMT DEF MaxDimension
  <2>5. q <= MaxDimension
    <3> HIDE DEF q
    <3> SUFFICES ASSUME q >= MaxDimension + 1 PROVE FALSE
      BY <2>2, SMT DEF MaxDimension
    <3>1. w * (MaxDimension + 1) <= h * q
      BY <1>1, <1>6, <2>2, ProductGrows, SMT DEF MaxDimension
    <3> QED BY <1>1, <2>2, <3>1, SMT DEF MaxDimension
  <2>6. w <= 5000
    BY <1>1, <1>6, ShorterSide, SMT
  <2> HIDE DEF q, out
  <2>7. Width(out) = q
    BY <2>1, <2>2, <2>4 DEF AtLeastOne
  <2>8. q * h <= MaxDimension * 5000
    BY <1>1, <2>2, <2>6, SMT DEF MaxDimension
  <2> QED BY <1>1, <1>4, <1>6, <2>1, <2>2, <2>5, <2>7, <2>8, SMT DEF MaxDimension
<1> QED BY <1>1, <1>3, <1>5, <1>6

\* The longer side of an image in proportion.
LEMMA LongerSide ==
  ASSUME NEW a \in Nat, NEW b \in Nat, a <= MaxDimension * b, a * b <= MaxPixels
  PROVE  a <= 200000
<1> SUFFICES ASSUME a >= 200001 PROVE FALSE
  OBVIOUS
<1>1. b >= 126
  BY SMT DEF MaxDimension
<1>2. 200001 * 126 <= a * b
  BY <1>1, ProductGrows, SMT
<1> QED BY <1>2, SMT DEF MaxPixels

\* One decoder of a PNG fits the budget, the tables and the rows that the
\* estimate leaves out included (reencode, resizeToFit), but for images that
\* are too thin or too flat, whose tables and buffer have no such bound.
THEOREM PeakBound ==
  ASSUME NEW i \in Int \X Int, Decodable(i), InProportion(i)
  PROVE  PeakBytes(i) \in Nat /\ PeakBytes(i) <= DecodeMemoryBudget
<1> DEFINE w == Width(i)
           h == Height(i)
           out == ResizeToFit(i)
<1>1. /\ w \in Nat \ {0} /\ h \in Nat \ {0} /\ w * h <= MaxPixels
      /\ w * h = h * w /\ w <= MaxDimension * h /\ h <= MaxDimension * w
  BY DEF Decodable, Pixels, Width, Height, InProportion
<1>2. w \in Nat /\ w <= 200000 /\ h \in Nat /\ h <= 200000
  <2> HIDE DEF w, h
  <2> QED BY <1>1, LongerSide
<1>3. /\ CountedBytes(i) \in Nat /\ CountedBytes(i) <= 466240000
      /\ ~Fits(i) => ResultFits(i)
  BY <1>1, CountedBound, EstimateIs DEF NotThin
<1>4. RowBytes(i) \in Nat /\ RowBytes(i) <= 3200016
  BY <1>2, SMT DEF RowBytes
<1>5. TableBytes(i) \in Nat /\ TableBytes(i) <= 25779200
  <2>1. CASE Fits(i)
    BY <2>1 DEF TableBytes
  <2>2. CASE ~Fits(i)
    <3>1. /\ Width(out) \in Nat /\ Width(out) <= 1600
          /\ Height(out) \in Nat /\ Height(out) <= 1600
      BY <1>3, <2>2 DEF ResultFits, MaxDimension
    <3>2. TableBytes(i) = 64 * (w + h) + 56 * (Width(out) + Height(out))
      BY <2>2 DEF TableBytes
    <3> HIDE DEF w, h, out
    <3> QED BY <1>2, <3>1, <3>2, SMT
  <2> QED BY <2>1, <2>2
<1>6. PeakBytes(i) \in Nat /\ PeakBytes(i) <= 495219216
  <2>1. PeakBytes(i) = CountedBytes(i) + RowBytes(i) + TableBytes(i)
    BY DEF PeakBytes
  <2> QED BY <1>3, <1>4, <1>5, <2>1, SMT
<1> QED BY <1>6, EstimateIs, SMT

\* The sum over a set of one request at most.
LEMMA SumOfFew ==
  ASSUME NEW S, \A q, r \in S : q = r, NEW bound \in Nat,
         \A r \in S : PeakBytes(Image(r)) \in Nat /\ PeakBytes(Image(r)) <= bound
  PROVE  MapThenSumSet(LAMBDA r : PeakBytes(Image(r)), S) <= bound
<1> DEFINE pick(s) == CHOOSE r \in s : TRUE
           peakOf(r) == PeakBytes(Image(r))
           total == [s \in SUBSET S |-> IF s = {} THEN 0 ELSE peakOf(pick(s))]
           Adds(f) == f = [s \in SUBSET S |-> IF s = {} THEN 0 ELSE
                             LET r == pick(s) IN peakOf(r) + f[s \ {r}]]
<1> HIDE DEF peakOf
<1>0. \A r \in S : peakOf(r) \in Nat /\ peakOf(r) <= bound
  BY DEF peakOf
<1>1. Adds(total)
  <2>1. ASSUME NEW s \in SUBSET S, s # {}
        PROVE  pick(s) \in s /\ s \ {pick(s)} = {}
    BY <2>1
  <2> HIDE DEF pick
  <2>2. ASSUME NEW s \in SUBSET S, s # {}
        PROVE  total[s] = peakOf(pick(s)) + total[s \ {pick(s)}]
    BY <1>0, <2>1, <2>2
  <2> QED BY <2>2
<1>2. Adds(CHOOSE f : Adds(f))
  BY <1>1, Zenon
<1>3. MapThenSumSet(LAMBDA r : PeakBytes(Image(r)), S) = (CHOOSE f : Adds(f))[S]
  BY DEF MapThenSumSet, MapThenFoldSet, peakOf
<1>4. ASSUME NEW f, Adds(f) PROVE f[S] <= bound
  <2>1. CASE S = {}
    BY <1>4, <2>1
  <2>2. CASE S # {}
    <3>1. pick(S) \in S /\ S \ {pick(S)} = {}
      BY <2>2
    <3> HIDE DEF pick
    <3>2. f[S] = peakOf(pick(S)) + f[{}] /\ f[{}] = 0
      BY <1>4, <3>1
    <3> QED BY <1>0, <3>1, <3>2
  <2> QED BY <2>1, <2>2
<1> HIDE DEF Adds
<1>5. (CHOOSE f : Adds(f))[S] <= bound
  BY <1>2, <1>4
<1> QED BY <1>3, <1>5

\* There is one decoder at most.
OneDecoder == \A q, r \in Request : pc[q] = "decode" /\ pc[r] = "decode" => q = r

\* Whoever decodes did so before, or has taken the slot.
LEMMA OnlyAcquireDecodes ==
  ASSUME TypeOK, [Next]_vars, ~\E r \in Request : Acquire(r)
  PROVE  \A q \in Request : pc'[q] = "decode" => pc[q] = "decode"
<1> USE DEF TypeOK
<1>1. ASSUME NEW r \in Request, NEW p, p # "decode", Goto(r, p)
      PROVE  \A q \in Request : pc'[q] = "decode" => pc[q] = "decode"
  BY <1>1 DEF Goto
<1>2. ASSUME NEW r \in Request, NEW code, NEW s, NEW f, Reply(r, code, s, f)
      PROVE  \A q \in Request : pc'[q] = "decode" => pc[q] = "decode"
  BY <1>2 DEF Reply, Goto
<1>3. ASSUME NEW r \in Request, SessionStep(r)
      PROVE  \A q \in Request : pc'[q] = "decode" => pc[q] = "decode"
  <2> USE <1>1, <1>2 DEF Plain
  <2>1. CASE Send(r) \/ Turned(r) \/ Receive(r) \/ Lose(r)
    BY <2>1 DEF Send, Turned, Receive, Lose
  <2>2. CASE ResolveSession(r)
    BY <2>2 DEF ResolveSession, Resolved
  <2>3. CASE StartGoogleLogin(r) \/ GetMe(r) \/ Logout(r)
    BY <2>3 DEF StartGoogleLogin, GetMe, Logout
  <2>4. CASE Callback(r)
    BY <2>4 DEF Callback
  <2>5. CASE Exchange(r) \/ CreateSession(r)
    BY <2>5 DEF Exchange, CreateSession
  <2> QED BY <1>3, <2>1, <2>2, <2>3, <2>4, <2>5 DEF SessionStep
<1>4. ASSUME NEW r \in Request, Submit(r) \/ Save(r)
      PROVE  \A q \in Request : pc'[q] = "decode" => pc[q] = "decode"
  BY <1>1, <1>2, <1>4 DEF Submit, Pass, Refuse, Save, Plain
<1>5. ASSUME NEW r \in Request, Upload(r) \/ GiveUp(r) \/ Reencode(r) \/ Store(r)
      PROVE  \A q \in Request : pc'[q] = "decode" => pc[q] = "decode"
  BY <1>1, <1>2, <1>5 DEF Upload, GiveUp, Reencode, Store, Plain
<1>6. CASE UNCHANGED pc
  BY <1>6
<1> QED
  BY <1>3, <1>4, <1>5, <1>6 DEF Next, SessionsNext, IntakeNext, DecodingNext, Tick, vars,
     sessionVars, requests, FlowLapses, DeleteExpired, ScrubClientIPs

\* The slot is taken when nobody has it.
LEMMA OneDecoderStep == RequestsInv /\ OneDecoder /\ [Next]_vars => OneDecoder'
<1> SUFFICES ASSUME RequestsInv, OneDecoder, [Next]_vars
             PROVE  OneDecoder'
  OBVIOUS
<1>1. CASE ~\E r \in Request : Acquire(r)
  BY <1>1, OnlyAcquireDecodes DEF OneDecoder, RequestsInv
<1>2. ASSUME NEW r \in Request, Acquire(r)
      PROVE  OneDecoder'
  <2>1. IsFiniteSet(Holding)
    BY SessionsAssumption, FS_Subset DEF Holding
  <2>2. Cardinality(Holding) \in Nat /\ Cardinality(Holding) < 1
    BY <1>2, <2>1, FS_CardinalityType DEF Acquire, DefaultMaxConcurrentDecodes
  <2>3. Holding = {}
    BY <2>1, <2>2, FS_EmptySet
  <2>4. \A q \in Request : pc'[q] = "decode" => q = r
    BY <1>2, <2>3 DEF Acquire, Goto, Holding, RequestsInv, TypeOK
  <2> QED BY <2>4 DEF OneDecoder
<1> QED BY <1>1, <1>2

\* The decoders keep to the memory set aside for them, as long as they decode
\* images in proportion (defaultMaxConcurrentDecodes, decodeMemoryBudget).
THEOREM DecodersKeepToMemory == Spec => []MemoryHolds
<1>1. Init => OneDecoder
  BY DEF Init, SessionsInit, OneDecoder
<1>2. RequestsInv /\ OneDecoder /\ [Next]_vars => OneDecoder'
  BY OneDecoderStep
<1>3. RequestsInv /\ OneDecoder => MemoryHolds
  <2> SUFFICES ASSUME RequestsInv, OneDecoder, \A r \in Decoders : InProportion(Image(r))
               PROVE  MapThenSumSet(LAMBDA r : PeakBytes(Image(r)), Decoders)
                        <= DecodeMemoryBudget
    BY DEF MemoryHolds
  <2>1. \A q, r \in Decoders : q = r
    BY DEF Decoders, OneDecoder
  <2>2. \A r \in Decoders : r \in DOMAIN job
    BY DEF Decoders, RequestsInv, PlacesFit, Kind, Image
  <2>3. \A r \in Decoders : Image(r) \in Int \X Int /\ Decodable(Image(r))
    BY <2>2, DecodingAssumption DEF Decoders, Image, RequestsInv, TypeOK
  <2>4. \A r \in Decoders :
          PeakBytes(Image(r)) \in Nat /\ PeakBytes(Image(r)) <= DecodeMemoryBudget
    BY <2>3, PeakBound
  <2>5. DecodeMemoryBudget \in Nat
    BY EstimateIs, SMT
  <2> QED BY <2>1, <2>4, <2>5, SumOfFew
<1> QED BY <1>1, <1>2, <1>3, RequestsAlways, PTL DEF Spec
=============================================================================
