-------------------------- MODULE ApiClientProofs ---------------------------
(***************************************************************************)
(* Proofs about Routing for any set of requests, and about ApiClient: its  *)
(* calls and the other requests are served as Routing says.                *)
(***************************************************************************)
EXTENDS ApiClient, TLAPS

\* What the place of a request tells of its status and its log entry.
PathInv(r) ==
    /\ at[r] \notin {"idle", "cors"} => cors[r]
    /\ at[r] \in {"idle", "cors", "logging", "mux"} => wire[r] = 0
    /\ at[r] # "done" => logged[r] = 0
    /\ at[r] = "answered" => wire[r] # 0 /\ recorded[r] = wire[r]
    /\ at[r] = "recovery" => panicked[r]
    /\ at[r] = "done" =>
         /\ wire[r] # 0
         /\ logged[r] # 0 => logged[r] = wire[r]
         /\ logged[r] = 0 =>
              \/ req[r].method = "OPTIONS"
              \/ panicked[r]
              \/ req[r].path \in SkipPaths

\* What there is in the body of the answer: nothing before there is a status; and
\* the recovery finds an answer only of a query.
BodyInv(r) ==
    /\ wire[r] = 0 => content[r] = "none"
    /\ at[r] = "recovery" /\ wire[r] # 0 => Route(req[r]) = "hastx"
    /\ at[r] \in {"answered", "recovery"} /\ wire[r] # 0 /\ req[r].method # "HEAD" =>
         content[r] # "none"
    /\ at[r] = "answered" => content[r] # "mixed"
    /\ content[r] = "mixed" => panicked[r] /\ Route(req[r]) = "hastx"

IInv == TypeOK /\ \A r \in Requests : PathInv(r)

\* A request that no step is about.
Unmoved(r) ==
    /\ at'[r] = at[r] /\ req'[r] = req[r] /\ cors'[r] = cors[r]
    /\ recorded'[r] = recorded[r] /\ wire'[r] = wire[r]
    /\ logged'[r] = logged[r] /\ panicked'[r] = panicked[r]
    /\ content'[r] = content[r]

\* Nothing changes for a request that stays where it is.
LEMMA UnmovedKeeps == ASSUME NEW r \in Requests, PathInv(r), Unmoved(r) PROVE PathInv(r)'
BY DEF PathInv, Unmoved, SkipPaths

\* Every route leads to a handler, and no handler answers with something else
\* than a status.
LEMMA AnswersAreStatuses ==
    ASSUME NEW q PROVE Answers(q) \subseteq Statuses \ {0}
<1>1. Route(q) \in {"static", "addSlash", "root", "liveness", "readiness", "swagger",
                    "submit", "hastx", "notFound"}
  BY DEF Route
<1>2. QED BY <1>1 DEF Answers, Statuses

\* Nothing has happened to a request before it arrives.
LEMMA InitIInv == Init => IInv
BY DEF Init, IInv, TypeOK, PathInv, NoRequest

\* The step of a request keeps its types.
LEMMA TypeStep == ASSUME TypeOK, [Next]_vars PROVE TypeOK'
<1> USE DEF TypeOK, Goto
<1>1. ASSUME NEW r \in Requests, NEW q \in [method : Methods, path : Paths], Arrive(r, q)
      PROVE  TypeOK'
  BY <1>1 DEF Arrive
<1>2. ASSUME NEW r \in Requests, Cors(r) PROVE TypeOK'
  BY <1>2 DEF Cors, Statuses
<1>3. ASSUME NEW r \in Requests, Wrap(r) PROVE TypeOK'
  BY <1>3 DEF Wrap, Statuses
<1>4. ASSUME NEW r \in Requests, Answer(r) PROVE TypeOK'
  <2>1. PICK code \in Answers(req[r]) : WriteHeader(r, code)
    BY <1>4 DEF Answer
  <2>2. code \in Statuses
    BY <2>1, AnswersAreStatuses
  <2>3. QED BY <1>4, <2>1, <2>2 DEF Answer, WriteHeader, Write
<1>5. ASSUME NEW r \in Requests, Recover(r) PROVE TypeOK'
  BY <1>5 DEF Recover, Statuses, Write
<1>6. ASSUME NEW r \in Requests, Log(r) PROVE TypeOK'
  BY <1>6 DEF Log
<1>7. ASSUME NEW r \in Requests, Panic(r) PROVE TypeOK'
  BY <1>7 DEF Panic
<1>8. ASSUME NEW r \in Requests, Follow(r) PROVE TypeOK'
  <2>1. /\ at' \in [Requests -> {"idle", "cors", "logging", "mux", "answered",
                                "recovery", "done"}]
        /\ hops' \in [Requests -> Nat]
    BY <1>8 DEF Follow
  <2>2. req' \in [Requests -> [method : Methods, path : Paths] \cup {NoRequest}]
    <3>1. Location(req[r]) \in Paths /\ {"GET", "HEAD"} \subseteq Methods
      BY DEF Location, Paths, Methods
    <3>2. QED BY <1>8, <3>1 DEF Follow
  <2>3. QED BY <1>8, <2>1, <2>2 DEF Follow
<1>9. CASE UNCHANGED vars
  BY <1>9 DEF vars
<1>10. QED
  BY <1>1, <1>2, <1>3, <1>4, <1>5, <1>6, <1>7, <1>8, <1>9 DEF Next, Serve, Served

\* A step of one request leaves the others as they are.
LEMMA OneMoves ==
    ASSUME TypeOK, NEW r \in Requests, PathInv(r)', IInv,
           \A p \in Requests \ {r} : Unmoved(p)
    PROVE  \A p \in Requests : PathInv(p)'
BY UnmovedKeeps DEF IInv

\* Every step of the middleware, of a handler and of a browser keeps what the
\* place of a request tells.
LEMMA PathStep ==
    ASSUME IInv, [Next]_vars PROVE \A r \in Requests : PathInv(r)'
<1> USE DEF TypeOK, Goto
<1>0. TypeOK
  BY DEF IInv
<1>1. ASSUME NEW r \in Requests, NEW q \in [method : Methods, path : Paths], Arrive(r, q)
      PROVE  \A p \in Requests : PathInv(p)'
  <2>1. PathInv(r)'
    BY <1>0, <1>1 DEF Arrive, PathInv, IInv
  <2>2. \A p \in Requests \ {r} : Unmoved(p)
    BY <1>0, <1>1 DEF Arrive, Unmoved
  <2>3. QED BY <1>0, <2>1, <2>2, OneMoves
<1>2. ASSUME NEW r \in Requests, Cors(r) PROVE \A p \in Requests : PathInv(p)'
  <2>1. PathInv(r)'
    BY <1>0, <1>2 DEF Cors, PathInv, IInv
  <2>2. \A p \in Requests \ {r} : Unmoved(p)
    BY <1>0, <1>2 DEF Cors, Unmoved
  <2>3. QED BY <1>0, <2>1, <2>2, OneMoves
<1>3. ASSUME NEW r \in Requests, Wrap(r) PROVE \A p \in Requests : PathInv(p)'
  <2>1. PathInv(r)'
    BY <1>0, <1>3 DEF Wrap, PathInv, IInv
  <2>2. \A p \in Requests \ {r} : Unmoved(p)
    BY <1>0, <1>3 DEF Wrap, Unmoved
  <2>3. QED BY <1>0, <2>1, <2>2, OneMoves
<1>4. ASSUME NEW r \in Requests, Answer(r) PROVE \A p \in Requests : PathInv(p)'
  <2>1. PICK code \in Answers(req[r]) : WriteHeader(r, code)
    BY <1>4 DEF Answer
  <2>2. code # 0
    BY <2>1, AnswersAreStatuses
  <2>3. PathInv(r)'
    BY <1>0, <1>4, <2>1, <2>2 DEF Answer, WriteHeader, PathInv, IInv
  <2>4. \A p \in Requests \ {r} : Unmoved(p)
    BY <1>0, <1>4, <2>1 DEF Answer, WriteHeader, Write, Unmoved
  <2>5. QED BY <1>0, <2>3, <2>4, OneMoves
<1>5. ASSUME NEW r \in Requests, Recover(r) PROVE \A p \in Requests : PathInv(p)'
  <2>1. PathInv(r)'
    BY <1>0, <1>5 DEF Recover, PathInv, IInv
  <2>2. \A p \in Requests \ {r} : Unmoved(p)
    BY <1>0, <1>5 DEF Recover, Write, Unmoved
  <2>3. QED BY <1>0, <2>1, <2>2, OneMoves
<1>6. ASSUME NEW r \in Requests, Log(r) PROVE \A p \in Requests : PathInv(p)'
  <2>1. PathInv(r)'
    BY <1>0, <1>6 DEF Log, PathInv, IInv, SkipPaths
  <2>2. \A p \in Requests \ {r} : Unmoved(p)
    BY <1>0, <1>6 DEF Log, Unmoved
  <2>3. QED BY <1>0, <2>1, <2>2, OneMoves
<1>7. ASSUME NEW r \in Requests, Panic(r) PROVE \A p \in Requests : PathInv(p)'
  <2>1. PathInv(r)'
    BY <1>0, <1>7 DEF Panic, PathInv, IInv
  <2>2. \A p \in Requests \ {r} : Unmoved(p)
    BY <1>0, <1>7 DEF Panic, Unmoved
  <2>3. QED BY <1>0, <2>1, <2>2, OneMoves
<1>8. ASSUME NEW r \in Requests, Follow(r) PROVE \A p \in Requests : PathInv(p)'
  <2>1. PathInv(r)'
    BY <1>0, <1>8 DEF Follow, PathInv, IInv
  <2>2. \A p \in Requests \ {r} : Unmoved(p)
    BY <1>0, <1>8 DEF Follow, Unmoved
  <2>3. QED BY <1>0, <2>1, <2>2, OneMoves
<1>9. CASE UNCHANGED vars
  BY <1>9 DEF vars, IInv, PathInv, SkipPaths
<1>10. QED
  BY <1>1, <1>2, <1>3, <1>4, <1>5, <1>6, <1>7, <1>8, <1>9 DEF Next, Serve, Served

\* The types and what the places tell hold in every behaviour.
THEOREM Inductive == Spec => []IInv
<1>1. IInv /\ [Next]_vars => IInv'
  BY TypeStep, PathStep DEF IInv
<1>2. QED BY InitIInv, <1>1, PTL DEF Spec

\* Every answer carries the CORS headers: that of a handler, of the preflight and
\* of the recovery, for any set of requests.
THEOREM AnswersAlwaysCarryCors == Spec => []AnswersCarryCors
<1>1. IInv => AnswersCarryCors
  BY DEF IInv, PathInv, AnswersCarryCors
<1>2. QED BY Inductive, <1>1, PTL

\* The access log has the status of the answer, and leaves out a request for one
\* of three reasons only.
THEOREM LogAlwaysTells == Spec => []LogTellsTheAnswer
<1>1. IInv => LogTellsTheAnswer
  BY DEF IInv, PathInv, LogTellsTheAnswer, SkipPaths
<1>2. QED BY Inductive, <1>1, PTL

\* A body is begun with its status, and only the recovery appends to one.
LEMMA BodyStep ==
    ASSUME IInv, \A r \in Requests : BodyInv(r), [Next]_vars
    PROVE  \A r \in Requests : BodyInv(r)'
<1> SUFFICES ASSUME NEW p \in Requests PROVE BodyInv(p)'
  OBVIOUS
<1> USE DEF TypeOK, Goto
<1>0. TypeOK /\ BodyInv(p) /\ PathInv(p)
  BY DEF IInv
<1>1. ASSUME Unmoved(p) PROVE BodyInv(p)'
  BY <1>0, <1>1 DEF BodyInv, Unmoved
<1>2. ASSUME NEW r \in Requests \ {p},
             \/ \E q \in [method : Methods, path : Paths] : Arrive(r, q)
             \/ Serve(r) \/ Panic(r) \/ Follow(r)
      PROVE  BodyInv(p)'
  BY <1>0, <1>1, <1>2 DEF Arrive, Serve, Cors, Wrap, Answer, WriteHeader, Write, Recover,
                          Log, Panic, Follow, Unmoved
<1>3. ASSUME NEW q \in [method : Methods, path : Paths], Arrive(p, q) PROVE BodyInv(p)'
  BY <1>0, <1>3 DEF Arrive, BodyInv, PathInv
<1>4. CASE Cors(p) \/ Wrap(p)
  BY <1>0, <1>4 DEF Cors, Wrap, BodyInv, PathInv
<1>5. CASE Answer(p)
  <2>1. PICK code \in Answers(req[p]) : WriteHeader(p, code)
    BY <1>5 DEF Answer
  <2>2. /\ at'[p] = "answered" /\ wire'[p] = code /\ code # 0
        /\ UNCHANGED <<req, panicked>>
        /\ content[p] = "none"
        /\ content'[p] = IF req[p].method = "HEAD" THEN "none" ELSE "answer"
    BY <1>0, <1>5, <2>1, AnswersAreStatuses DEF Answer, WriteHeader, Write, BodyInv, PathInv
  <2>3. QED BY <2>2 DEF BodyInv
<1>6. CASE Recover(p)
  <2>1. /\ at[p] = "recovery" /\ at'[p] = "done" /\ panicked[p]
        /\ wire'[p] # 0 /\ UNCHANGED <<req, panicked>>
        /\ content'[p] \in {content[p], "answer", "mixed"}
        /\ content'[p] = "mixed" => content[p] # "none"
    BY <1>0, <1>6 DEF Recover, Write, PathInv
  <2>2. QED BY <1>0, <2>1 DEF BodyInv
<1>7. CASE Log(p)
  BY <1>0, <1>7 DEF Log, BodyInv
<1>8. CASE Panic(p)
  BY <1>0, <1>8 DEF Panic, BodyInv, PathInv
<1>9. CASE Follow(p)
  BY <1>0, <1>9 DEF Follow, BodyInv
<1>10. CASE UNCHANGED vars
  BY <1>1, <1>10 DEF vars, Unmoved
<1>11. QED
  BY <1>2, <1>3, <1>4, <1>5, <1>6, <1>7, <1>8, <1>9, <1>10 DEF Next, Serve, Served

\* The bodies of all requests.
Bodies == \A r \in Requests : BodyInv(r)

\* So it is in every behaviour.
THEOREM BodiesInductive == Spec => []Bodies
<1>1. Init => Bodies
  BY DEF Init, BodyInv, Bodies
<1>2. IInv /\ Bodies /\ [Next]_vars => Bodies'
  BY BodyStep DEF Bodies
<1>3. QED BY Inductive, <1>1, <1>2, PTL DEF Spec

\* No panic changes the status of an answer, and only one in the deferred Close of a
\* query puts text behind its body.
THEOREM AnswersStand == Spec => AnswerStands
<1> DEFINE Stands(r) ==
             wire[r] # 0 /\ hops'[r] = hops[r] =>
                /\ wire'[r] = wire[r]
                /\ content'[r] # content[r] =>
                     content'[r] = "mixed" /\ panicked[r] /\ Route(req[r]) = "hastx"
<1>1. ASSUME IInv, Bodies, [Next]_vars
      PROVE  [\A r \in Requests : Stands(r)]_vars
  <2> SUFFICES ASSUME Next, NEW p \in Requests, wire[p] # 0, hops'[p] = hops[p]
               PROVE  /\ wire'[p] = wire[p]
                      /\ content'[p] # content[p] =>
                           content'[p] = "mixed" /\ panicked[p] /\ Route(req[p]) = "hastx"
    BY <1>1
  <2> DEFINE Stood == wire'[p] = wire[p] /\ content'[p] = content[p]
  <2> USE DEF TypeOK, Goto
  <2>0. TypeOK /\ PathInv(p) /\ BodyInv(p)
    BY <1>1 DEF IInv, Bodies
  <2>1. ASSUME NEW r \in Requests, NEW q \in [method : Methods, path : Paths], Arrive(r, q)
        PROVE  Stood
    BY <2>1 DEF Arrive
  <2>2. ASSUME NEW r \in Requests, Cors(r) PROVE Stood
    BY <2>0, <2>2 DEF Cors, PathInv
  <2>3. ASSUME NEW r \in Requests, Answer(r) PROVE Stood
    BY <2>0, <2>3 DEF Answer, WriteHeader, Write, PathInv
  <2>4. ASSUME NEW r \in Requests, Recover(r), r # p PROVE Stood
    BY <2>0, <2>4 DEF Recover, Write
  <2>5. ASSUME NEW r \in Requests, Wrap(r) \/ Log(r) \/ Panic(r) PROVE Stood
    BY <2>5 DEF Wrap, Log, Panic
  <2>6. ASSUME NEW r \in Requests, Follow(r) PROVE Stood
    BY <2>0, <2>6 DEF Follow
  <2>7. CASE Served
    BY <2>7 DEF Served, vars
  <2>8. CASE Recover(p)
    <3>1. /\ at[p] = "recovery" /\ panicked[p] /\ Route(req[p]) = "hastx"
          /\ wire'[p] = wire[p]
      BY <2>0, <2>8 DEF Recover, PathInv, BodyInv
    <3>2. content'[p] = content[p] \/ content'[p] = "mixed"
      BY <2>0, <2>8, <3>1 DEF Recover, Write, BodyInv
    <3>3. QED BY <3>1, <3>2
  <2>9. QED BY <2>1, <2>2, <2>3, <2>4, <2>5, <2>6, <2>7, <2>8 DEF Next, Serve
<1>2. QED BY Inductive, BodiesInductive, <1>1, PTL DEF Spec, AnswerStands

-----------------------------------------------------------------------------
(* Where redirects lead.                                                   *)

\* What the answer and the path of a request tell of the redirects behind it: an
\* answer is that of the route, of the preflight or of the recovery, only two routes
\* panic, and a request that was redirected is on its way to the page.
WayInv(r) ==
    /\ at[r] = "idle" => hops[r] = 0 /\ ~panicked[r]
    /\ at[r] \in {"logging", "mux", "answered", "recovery"} => req[r].method # "OPTIONS"
    /\ wire[r] # 0 =>
         \/ wire[r] = 204 /\ req[r].method = "OPTIONS"
         \/ wire[r] = 500 /\ panicked[r]
         \/ wire[r] \in Answers(req[r])
    /\ panicked[r] => Route(req[r]) \in {"submit", "hastx"}
    /\ hops[r] > 0 => req[r].method \in {"GET", "HEAD"}
    /\ \/ hops[r] = 0
       \/ hops[r] = 1 /\ req[r].path \in {"/ui", "/ui/"}
       \/ hops[r] = 2 /\ req[r].path = "/ui/"

\* A 301 of the program, not of the swagger handler, is that of "/" or of "/ui".
LEMMA RedirectsToFollow ==
    ASSUME NEW q, 301 \in Answers(q), Route(q) # "swagger"
    PROVE  \/ q.path = "/" /\ Location(q) = "/ui"
           \/ q.path = "/ui" /\ Location(q) = "/ui/"
<1>1. Route(q) \in {"static", "addSlash", "root", "liveness", "readiness", "swagger",
                    "submit", "hastx", "notFound"}
  BY DEF Route
<1>2. Route(q) \in {"root", "addSlash"}
  BY <1>1 DEF Answers
<1>3. QED BY <1>2 DEF Route, Location

LEMMA WayStep ==
    ASSUME IInv, \A r \in Requests : WayInv(r), [Next]_vars
    PROVE  \A r \in Requests : WayInv(r)'
<1> SUFFICES ASSUME NEW p \in Requests PROVE WayInv(p)'
  OBVIOUS
<1> USE DEF IInv, TypeOK, Goto
<1>0. WayInv(p) /\ PathInv(p)
  BY DEF IInv
<1>1. ASSUME UNCHANGED <<at[p], req[p], wire[p], panicked[p], hops[p]>> PROVE WayInv(p)'
  BY <1>0, <1>1 DEF WayInv
<1>2. ASSUME NEW r \in Requests, NEW q \in [method : Methods, path : Paths], Arrive(r, q)
      PROVE  WayInv(p)'
  <2>1. CASE p = r
    <3>1. /\ at'[p] = "cors" /\ hops'[p] = 0 /\ wire'[p] = 0
          /\ at[p] = "idle" /\ req'[p] = q /\ panicked'[p] = panicked[p]
      BY <1>0, <1>2, <2>1 DEF Arrive, WayInv, PathInv
    <3>2. ~panicked[p]
      BY <1>0, <3>1 DEF WayInv
    <3>3. QED BY <3>1, <3>2 DEF WayInv
  <2>2. QED BY <1>1, <1>2, <2>1 DEF Arrive
<1>3. ASSUME NEW r \in Requests, Cors(r) PROVE WayInv(p)'
  <2>1. CASE p = r
    <3>1. /\ req'[p] = req[p] /\ panicked'[p] = panicked[p] /\ hops'[p] = hops[p]
          /\ wire[p] = 0
          /\ \/ req[p].method = "OPTIONS" /\ at'[p] = "done" /\ wire'[p] = 204
             \/ req[p].method # "OPTIONS" /\ at'[p] = "logging" /\ wire'[p] = wire[p]
      BY <1>0, <1>3, <2>1 DEF Cors, PathInv
    <3>2. QED BY <1>0, <3>1 DEF WayInv
  <2>2. QED BY <1>1, <1>3, <2>1 DEF Cors
<1>4. ASSUME NEW r \in Requests, Wrap(r) \/ Log(r) PROVE WayInv(p)'
  <2>1. /\ req'[p] = req[p] /\ panicked'[p] = panicked[p] /\ hops'[p] = hops[p]
        /\ wire'[p] = wire[p]
        /\ \/ at'[p] = at[p]
           \/ at[p] = "logging" /\ at'[p] = "mux"
           \/ at'[p] = "done"
    BY <1>4 DEF Wrap, Log
  <2>2. QED BY <1>0, <2>1 DEF WayInv
<1>5. ASSUME NEW r \in Requests, Answer(r) PROVE WayInv(p)'
  <2>1. PICK code \in Answers(req[r]) : WriteHeader(r, code)
    BY <1>5 DEF Answer
  <2>2. CASE p = r
    <3>1. /\ req'[p] = req[p] /\ panicked'[p] = panicked[p] /\ hops'[p] = hops[p]
          /\ at[p] = "mux" /\ at'[p] = "answered" /\ wire'[p] = code
      BY <1>5, <2>1, <2>2 DEF Answer, WriteHeader
    <3>2. QED BY <1>0, <2>1, <2>2, <3>1 DEF WayInv
  <2>3. QED BY <1>1, <1>5, <2>1, <2>2 DEF Answer, WriteHeader
<1>6. ASSUME NEW r \in Requests, Panic(r) PROVE WayInv(p)'
  <2>1. CASE p = r
    <3>1. /\ req'[p] = req[p] /\ hops'[p] = hops[p] /\ wire'[p] = wire[p]
          /\ at[p] \in {"mux", "answered"} /\ at'[p] = "recovery" /\ panicked'[p]
          /\ Route(req[p]) \in {"submit", "hastx"}
      BY <1>6, <2>1 DEF Panic
    <3>2. QED BY <1>0, <3>1 DEF WayInv
  <2>2. QED BY <1>1, <1>6, <2>1 DEF Panic
<1>7. ASSUME NEW r \in Requests, Recover(r) PROVE WayInv(p)'
  <2>1. CASE p = r
    <3>1. /\ req'[p] = req[p] /\ panicked'[p] = panicked[p] /\ hops'[p] = hops[p]
          /\ at[p] = "recovery" /\ at'[p] = "done"
          /\ wire'[p] = IF wire[p] = 0 THEN 500 ELSE wire[p]
      BY <1>7, <2>1 DEF Recover
    <3>2. panicked[p]
      BY <1>0, <3>1 DEF PathInv
    <3>3. QED BY <1>0, <3>1, <3>2 DEF WayInv
  <2>2. QED BY <1>1, <1>7, <2>1 DEF Recover
<1>8. ASSUME NEW r \in Requests, Follow(r) PROVE WayInv(p)'
  <2>1. CASE p = r
    <3>1. /\ at'[p] = "cors" /\ wire'[p] = 0 /\ hops'[p] = hops[p] + 1
          /\ req'[p].method \in {"GET", "HEAD"} /\ req'[p].path = Location(req[p])
          /\ panicked'[p] = panicked[p]
          /\ wire[p] = 301 /\ Route(req[p]) # "swagger" /\ hops[p] \in Nat
      BY <1>8, <2>1 DEF Follow
    <3>2. 301 \in Answers(req[p])
      BY <1>0, <3>1 DEF WayInv
    <3>3. ~panicked[p]
      BY <1>0, <3>2 DEF WayInv, Answers
    <3>4. \/ req[p].path = "/" /\ Location(req[p]) = "/ui"
          \/ req[p].path = "/ui" /\ Location(req[p]) = "/ui/"
      BY <3>1, <3>2, RedirectsToFollow
    <3>5. QED BY <1>0, <3>1, <3>3, <3>4 DEF WayInv
  <2>2. QED BY <1>1, <1>8, <2>1 DEF Follow
<1>9. CASE UNCHANGED vars
  BY <1>1, <1>9 DEF vars
<1>10. QED
  BY <1>2, <1>3, <1>4, <1>5, <1>6, <1>7, <1>8, <1>9 DEF Next, Serve, Served

\* Whoever follows redirects arrives at the page: there are two at most, one from
\* "/" to "/ui" and one from there to "/ui/", and behind them is the page.
RedirectsLeadToThePage ==
    \A r \in Requests :
        /\ hops[r] <= 2
        /\ hops[r] > 0 /\ at[r] = "done" =>
             \/ req[r].path = "/ui" /\ wire[r] = 301
             \/ req[r].path = "/ui/" /\ wire[r] = 200

\* From no request does a browser go in circles, or end at another answer than the
\* page: the safety half of EveryRequestAnswered, for any set of requests.
THEOREM NoRedirectLoop == Spec => []RedirectsLeadToThePage
<1> DEFINE Ways == \A r \in Requests : WayInv(r)
<1>1. Init => Ways
  BY DEF Init, WayInv
<1>2. IInv /\ Ways /\ [Next]_vars => Ways'
  BY WayStep
<1>3. IInv /\ Ways => RedirectsLeadToThePage
  <2> SUFFICES ASSUME IInv, NEW r \in Requests, WayInv(r)
               PROVE  /\ hops[r] <= 2
                      /\ hops[r] > 0 /\ at[r] = "done" =>
                           \/ req[r].path = "/ui" /\ wire[r] = 301
                           \/ req[r].path = "/ui/" /\ wire[r] = 200
    BY DEF RedirectsLeadToThePage
  <2>1. hops[r] <= 2
    BY DEF WayInv
  <2>2. ASSUME hops[r] > 0, at[r] = "done"
        PROVE  \/ req[r].path = "/ui" /\ wire[r] = 301
               \/ req[r].path = "/ui/" /\ wire[r] = 200
    <3>1. req[r].path \in {"/ui", "/ui/"} /\ req[r].method # "OPTIONS"
      BY <2>2 DEF WayInv
    <3>2. /\ req[r].path = "/ui" => Route(req[r]) = "addSlash"
          /\ req[r].path = "/ui/" => Route(req[r]) = "static"
      BY DEF Route
    <3>3. wire[r] \in Answers(req[r])
      BY <2>2, <3>1, <3>2 DEF IInv, PathInv, WayInv
    <3>4. QED BY <3>1, <3>2, <3>3 DEF Answers
  <2>3. QED BY <2>1, <2>2
<1>4. QED BY Inductive, <1>1, <1>2, <1>3, PTL DEF Spec

-----------------------------------------------------------------------------
(* The client and everybody else.                                          *)

\* Beside the client's own steps the server does what Routing says: what was
\* proved of it holds with clients that lose answers or never come for them.
THEOREM ServedAsRouting == ClientSpec => Spec
<1>1. ClientInit => Init
  BY DEF ClientInit
<1>2. [ClientNext]_allVars => [Next]_vars
  <2> SUFFICES ASSUME ClientNext PROVE [Next]_vars
    BY DEF allVars
  <2>1. ASSUME NEW c \in Requests, Send(c) PROVE Next
    <3>1. RequestOf(c) \in [method : Methods, path : Paths]
      BY DEF RequestOf, Methods, Paths
    <3>2. QED BY <2>1, <3>1 DEF Send, Next
  <2>2. ASSUME NEW c \in Requests, NEW q \in [method : Methods, path : Paths], Visit(c, q)
        PROVE  Next
    BY <2>2 DEF Visit, Next
  <2>3. ASSUME NEW c \in Requests, ServerStep(c) \/ Browse(c) PROVE Next
    BY <2>3 DEF ServerStep, Browse, Next
  <2>4. ASSUME NEW c \in Requests, Execute(c), ~Send(c) PROVE UNCHANGED vars
    BY <2>4 DEF Execute, ServerURLWithContext, CheckUsage, PrepareRequest, SendFails,
            Receive, ReadBody, Conclude
  <2>5. ASSUME NEW c \in Requests, LoseAnswer(c) \/ \E k \in Calls : Begin(c, k)
        PROVE  UNCHANGED vars
    BY <2>5 DEF LoseAnswer, Begin
  <2>6. CASE AllReturned
    BY <2>6 DEF AllReturned, allVars
  <2>7. QED BY <2>1, <2>2, <2>3, <2>4, <2>5, <2>6 DEF ClientNext
<1>3. QED BY <1>1, <1>2, PTL DEF ClientSpec, Spec

\* Also with clients of the generated kind beside the browser.
THEOREM NoLoopBesideClients == ClientSpec => []RedirectsLeadToThePage
BY ServedAsRouting, NoRedirectLoop

\* Hence what the places of requests tell holds beside the client too.
THEOREM ServedCallsKeep == ClientSpec => []IInv
BY ServedAsRouting, Inductive, PTL

-----------------------------------------------------------------------------
(* The client's calls.                                                     *)

\* The server of a call, once one was chosen.
Chosen(c) ==
    /\ Resolves(c)
    /\ server[c] = [kind |-> ServerList(c)[Position(IndexOf(c))], value |-> ValueOf(c)]

\* What a call that returned knows of the server's answer.
Outcome(c) ==
    /\ err[c] \in Errors \cup {"none"}
    /\ err[c] \in {"url", "usage", "request", "scheme"} => at[c] = "idle"
    /\ err[c] \in {"none", "status"} => at[c] = "done" /\ status[c] = wire[c]
    /\ err[c] = "none" => status[c] < 300
    /\ err[c] = "status" =>
         status[c] >= 300 /\ (model[c] <=> status[c] \in Documented(call[c].op))
    /\ err[c] \in {"none", "status", "body"} => status[c] # 0
    /\ body[c] = "open" => err[c] = "dump" /\ cfg.debug

CallInv(c) ==
    /\ step[c] \in {"idle", "url", "usage", "prepare", "call"} => at[c] = "idle"
    /\ step[c] \in {"url", "usage", "prepare", "call", "sent"} => body[c] = "none"
    /\ step[c] \in {"read", "conclude"} =>
         at[c] = "done" /\ status[c] = wire[c] /\ status[c] # 0
    /\ step[c] = "conclude" => body[c] = "closed"
    /\ step[c] = "returned" => Outcome(c)
    /\ step[c] # "returned" => err[c] = "pending"
    /\ step[c] = "idle" => body[c] = "none"
    /\ step[c] \notin {"idle", "other", "url"} /\ err[c] # "url" => Chosen(c)
    /\ step[c] \notin {"idle", "other"} => call[c] \in Calls

ClientIInv == IInv /\ ClientTypeOK /\ \A c \in Requests : CallInv(c)

SameCall(c) ==
    /\ cfg' = cfg /\ call'[c] = call[c] /\ step'[c] = step[c] /\ server'[c] = server[c]
    /\ status'[c] = status[c] /\ body'[c] = body[c] /\ err'[c] = err[c]
    /\ model'[c] = model[c]

\* The server's work does not touch what it has answered.
SameAnswer(c) == at[c] \in {"idle", "done"} => at'[c] = at[c] /\ wire'[c] = wire[c]

\* A call that takes no step is not disturbed by others or by the server.
LEMMA CallKept ==
    ASSUME NEW c \in Requests, CallInv(c), SameCall(c), SameAnswer(c) PROVE CallInv(c)'
<1>1. Chosen(c) => Chosen(c)'
  BY DEF SameCall, Chosen, Resolves, IndexOf, ValueOf, ServerList
<1>2. Outcome(c) => Outcome(c)'
  BY DEF SameCall, SameAnswer, Outcome
<1>3. QED BY <1>1, <1>2 DEF CallInv, SameCall, SameAnswer

\* A request moves only by its own steps.
LEMMA OthersUnmoved ==
    ASSUME TypeOK, NEW r \in Requests, NEW p \in Requests \ {r},
           \/ \E q \in [method : Methods, path : Paths] : Arrive(r, q)
           \/ Serve(r) \/ Panic(r) \/ Follow(r)
    PROVE  Unmoved(p)
BY DEF TypeOK, Arrive, Serve, Cors, Wrap, Answer, WriteHeader, Write, Recover, Log, Panic,
       Follow, Goto, Unmoved

\* A request that has not come or has been answered is not served.
LEMMA NotServed ==
    ASSUME NEW r \in Requests, Serve(r) \/ Panic(r) PROVE at[r] \notin {"idle", "done"}
BY DEF Serve, Cors, Wrap, Answer, Recover, Log, Panic, Goto

\* A chosen server is one of the list, with a value of the context or the default.
LEMMA ChosenTypes ==
    ASSUME ClientTypeOK, NEW c \in Requests, call[c] \in Calls, Resolves(c)
    PROVE  /\ Position(IndexOf(c)) \in DOMAIN ServerList(c)
           /\ ServerList(c)[Position(IndexOf(c))] \in Servers
           /\ ValueOf(c) \in {"default", "listed", "unlisted"}
<1>1. ServerList(c) \in Seq(Servers)
  BY ConfigurationsAssumption DEF ClientTypeOK, ServerList
<1>2. Position(IndexOf(c)) \in 1 .. Len(ServerList(c))
  BY <1>1 DEF Resolves, Position
<1>3. call[c].ctx \in [index : {"unset", "bad", "first", "second"},
                       operationIndex : {"unset", "other", "bad", "first", "second"},
                       variables : {"unset", "bad", "listed", "unlisted"},
                       operationVariables : {"unset", "other", "bad", "listed", "unlisted"}]
  BY CallsAssumption
<1>4. ValueOf(c) \in {"default", "listed", "unlisted"}
  BY <1>3 DEF Resolves, ValueOf, Setting
<1>5. QED BY <1>1, <1>2, <1>4

\* The own steps of a call keep what its place tells.
LEMMA ExecuteStep ==
    ASSUME ClientIInv, NEW c \in Requests, Execute(c) \/ LoseAnswer(c)
    PROVE  CallInv(c)'
<1>0. TypeOK /\ ClientTypeOK /\ CallInv(c) /\ PathInv(c)
  BY DEF ClientIInv, IInv
<1> USE DEF ClientTypeOK, Goes, Return
<1>1. CASE ServerURLWithContext(c)
  <2>1. /\ step[c] = "url" /\ at[c] = "idle" /\ body[c] = "none" /\ call[c] \in Calls
        /\ UNCHANGED <<vars, cfg, call, body>>
    BY <1>0, <1>1 DEF ServerURLWithContext, CallInv
  <2>2. CASE Resolves(c)
    <3>1. /\ step'[c] = "usage" /\ err'[c] = "pending"
          /\ server'[c] = [kind |-> ServerList(c)[Position(IndexOf(c))],
                           value |-> ValueOf(c)]
      BY <1>0, <1>1, <2>1, <2>2 DEF ServerURLWithContext, CallInv
    <3>2. Chosen(c)'
      BY <2>1, <2>2, <3>1 DEF Chosen, Resolves, IndexOf, ValueOf, ServerList
    <3>3. QED BY <2>1, <3>1, <3>2 DEF CallInv, vars
  <2>3. CASE ~Resolves(c)
    <3>1. step'[c] = "returned" /\ err'[c] = "url"
      BY <1>0, <1>1, <2>1, <2>3 DEF ServerURLWithContext
    <3>2. Outcome(c)'
      BY <2>1, <3>1 DEF Outcome, Errors, vars
    <3>3. QED BY <2>1, <3>1, <3>2 DEF CallInv
  <2>4. QED BY <2>2, <2>3
<1>2. ASSUME UNCHANGED <<cfg, call, server>>, step[c] \notin {"idle", "other", "url"},
             step'[c] \notin {"idle", "other", "url"}, err[c] # "url"
      PROVE  Chosen(c)' /\ call'[c] \in Calls
  <2>1. Chosen(c) /\ call[c] \in Calls
    BY <1>0, <1>2 DEF CallInv
  <2>2. QED BY <1>2, <2>1 DEF Chosen, Resolves, IndexOf, ValueOf, ServerList
<1>3. CASE CheckUsage(c) \/ PrepareRequest(c)
  <2>1. /\ step[c] \in {"usage", "prepare"} /\ at[c] = "idle" /\ body[c] = "none"
        /\ err[c] = "pending" /\ UNCHANGED <<vars, cfg, call, server, status, body>>
    BY <1>0, <1>3 DEF CheckUsage, PrepareRequest, CallInv
  <2>2. \/ step'[c] \in {"prepare", "call"} /\ err'[c] = "pending"
        \/ step'[c] = "returned" /\ err'[c] \in {"usage", "request"}
    BY <1>0, <1>3, <2>1 DEF CheckUsage, PrepareRequest
  <2>3. Chosen(c)' /\ call'[c] \in Calls
    BY <1>2, <2>1, <2>2
  <2>4. QED BY <2>1, <2>2, <2>3 DEF CallInv, Outcome, Errors, vars
<1>4. CASE Send(c)
  <2>1. /\ step[c] = "call" /\ step'[c] = "sent" /\ body[c] = "none"
        /\ err[c] = "pending" /\ UNCHANGED <<cfg, call, server, status, body, err>>
    BY <1>0, <1>4 DEF Send, CallInv
  <2>2. Chosen(c)' /\ call'[c] \in Calls
    BY <1>2, <2>1
  <2>3. QED BY <2>1, <2>2 DEF CallInv
<1>5. CASE SendFails(c) \/ LoseAnswer(c)
  <2>1. /\ step[c] \in {"call", "sent"} /\ step'[c] = "returned"
        /\ step[c] = "call" => at[c] = "idle"
        /\ body[c] = "none" /\ err[c] = "pending"
        /\ err'[c] = "scheme" => step[c] = "call"
        /\ err'[c] \in {"dump", "scheme", "transport"}
        /\ UNCHANGED <<vars, cfg, call, server, status, body>>
    BY <1>0, <1>5 DEF SendFails, LoseAnswer, CallInv
  <2>2. Chosen(c)' /\ call'[c] \in Calls
    BY <1>2, <2>1
  <2>3. QED BY <2>1, <2>2 DEF CallInv, Outcome, Errors, vars
<1>6. CASE Receive(c)
  <2>1. /\ step[c] = "sent" /\ at[c] = "done" /\ wire[c] # 0 /\ err[c] = "pending"
        /\ status'[c] = wire[c] /\ body'[c] = "open"
        /\ UNCHANGED <<vars, cfg, call, server>>
        /\ \/ step'[c] = "read" /\ err'[c] = "pending"
           \/ step'[c] = "returned" /\ err'[c] = "dump" /\ cfg.debug
    BY <1>0, <1>6 DEF Receive, CallInv, PathInv
  <2>2. Chosen(c)' /\ call'[c] \in Calls
    BY <1>2, <2>1
  <2>3. QED BY <2>1, <2>2 DEF CallInv, Outcome, Errors, vars
<1>7. CASE ReadBody(c)
  <2>1. /\ step[c] = "read" /\ at[c] = "done" /\ status[c] = wire[c] /\ status[c] # 0
        /\ err[c] = "pending" /\ body'[c] = "closed"
        /\ UNCHANGED <<vars, cfg, call, server, status>>
        /\ \/ step'[c] = "conclude" /\ err'[c] = "pending"
           \/ step'[c] = "returned" /\ err'[c] = "body"
    BY <1>0, <1>7 DEF ReadBody, CallInv
  <2>2. Chosen(c)' /\ call'[c] \in Calls
    BY <1>2, <2>1
  <2>3. QED BY <2>1, <2>2 DEF CallInv, Outcome, Errors, vars
<1>8. CASE Conclude(c)
  <2>1. /\ step[c] = "conclude" /\ at[c] = "done" /\ status[c] = wire[c]
        /\ status[c] # 0 /\ body[c] = "closed" /\ err[c] = "pending"
        /\ step'[c] = "returned"
        /\ UNCHANGED <<vars, cfg, call, server, status, body>>
        /\ model'[c] <=> status[c] >= 300 /\ status[c] \in Documented(call[c].op)
        /\ err'[c] = IF status[c] >= 300 THEN "status" ELSE "none"
    BY <1>0, <1>8 DEF Conclude, CallInv
  <2>2. status[c] \in Nat
    BY <1>0 DEF Statuses
  <2>3. Chosen(c)' /\ call'[c] \in Calls
    BY <1>2, <2>1
  <2>4. Outcome(c)'
    BY <2>1, <2>2 DEF Outcome, Errors, vars, Documented
  <2>5. QED BY <2>1, <2>3, <2>4 DEF CallInv
<1>9. QED
  BY <1>1, <1>3, <1>4, <1>5, <1>6, <1>7, <1>8 DEF Execute

\* Every step of the client and of the server keeps the client's types.
LEMMA ClientTypeStep ==
    ASSUME ClientIInv, TypeOK', [ClientNext]_allVars PROVE ClientTypeOK'
<1> USE DEF ClientTypeOK, Goes, Return, Errors
<1>0. ClientTypeOK /\ TypeOK /\ \A c \in Requests : CallInv(c)
  BY DEF ClientIInv, IInv
<1>1. ASSUME NEW c \in Requests, ServerURLWithContext(c) PROVE ClientTypeOK'
  <2>1. CASE Resolves(c)
    <3>1. call[c] \in Calls
      BY <1>0, <1>1 DEF ServerURLWithContext, CallInv
    <3>2. [kind |-> ServerList(c)[Position(IndexOf(c))], value |-> ValueOf(c)]
            \in [kind : Servers \cup {"none"}, value : {"none", "default", "listed", "unlisted"}]
      BY <1>0, <2>1, <3>1, ChosenTypes
    <3>3. QED BY <1>0, <1>1, <2>1, <3>2 DEF ServerURLWithContext
  <2>2. CASE ~Resolves(c)
    BY <1>0, <1>1, <2>2 DEF ServerURLWithContext
  <2>3. QED BY <2>1, <2>2
<1>2. ASSUME NEW c \in Requests, CheckUsage(c) \/ PrepareRequest(c) PROVE ClientTypeOK'
  BY <1>0, <1>2 DEF CheckUsage, PrepareRequest
<1>3. ASSUME NEW c \in Requests, Send(c) \/ SendFails(c) \/ LoseAnswer(c)
      PROVE  ClientTypeOK'
  BY <1>0, <1>3 DEF Send, SendFails, LoseAnswer
<1>4. ASSUME NEW c \in Requests, Receive(c) PROVE ClientTypeOK'
  <2>1. wire[c] \in {0} \cup Statuses
    BY <1>0 DEF TypeOK
  <2>2. QED BY <1>0, <1>4, <2>1 DEF Receive
<1>5. ASSUME NEW c \in Requests, ReadBody(c) PROVE ClientTypeOK'
  BY <1>0, <1>5 DEF ReadBody
<1>6. ASSUME NEW c \in Requests, Conclude(c) PROVE ClientTypeOK'
  BY <1>0, <1>6 DEF Conclude
<1>7. ASSUME NEW c \in Requests, NEW k \in Calls, Begin(c, k) PROVE ClientTypeOK'
  BY <1>0, <1>7 DEF Begin
<1>8. ASSUME NEW c \in Requests, NEW q \in [method : Methods, path : Paths], Visit(c, q)
      PROVE  ClientTypeOK'
  BY <1>0, <1>8 DEF Visit
<1>9. CASE UNCHANGED clientVars
  BY <1>0, <1>9 DEF clientVars
<1>10. QED
  BY <1>1, <1>2, <1>3, <1>4, <1>5, <1>6, <1>7, <1>8, <1>9
  DEF ClientNext, Execute, ServerStep, Browse, AllReturned, allVars

\* A step of the client changes the call it belongs to and no other.
LEMMA OtherCalls ==
    ASSUME ClientIInv, NEW c \in Requests, NEW p \in Requests \ {c},
           \/ Execute(c) \/ LoseAnswer(c)
           \/ \E k \in Calls : Begin(c, k)
           \/ \E q \in [method : Methods, path : Paths] : Visit(c, q)
    PROVE  SameCall(p) /\ SameAnswer(p)
<1>0. TypeOK /\ ClientTypeOK
  BY DEF ClientIInv, IInv
<1>1. SameCall(p)
  BY <1>0 DEF ClientTypeOK, SameCall, Execute, ServerURLWithContext, CheckUsage,
              PrepareRequest, Send, SendFails, LoseAnswer, Receive, ReadBody, Conclude,
              Begin, Visit, Goes, Return
<1>2. at'[p] = at[p] /\ wire'[p] = wire[p]
  BY <1>0 DEF TypeOK, Execute, ServerURLWithContext, CheckUsage, PrepareRequest, Send,
              SendFails, LoseAnswer, Receive, ReadBody, Conclude, Begin, Visit, Arrive,
              Goto, vars
<1>3. QED BY <1>1, <1>2 DEF SameAnswer

\* Every step keeps what the places of the calls tell.
LEMMA CallStep ==
    ASSUME ClientIInv, [ClientNext]_allVars PROVE \A p \in Requests : CallInv(p)'
<1>0. TypeOK /\ ClientTypeOK /\ \A p \in Requests : CallInv(p)
  BY DEF ClientIInv, IInv
<1>1. ASSUME NEW c \in Requests, Execute(c) \/ LoseAnswer(c)
      PROVE  \A p \in Requests : CallInv(p)'
  <2>1. CallInv(c)'
    BY <1>1, ExecuteStep
  <2>2. \A p \in Requests \ {c} : CallInv(p)'
    BY <1>0, <1>1, OtherCalls, CallKept
  <2>3. QED BY <2>1, <2>2
<1>2. ASSUME NEW c \in Requests, NEW k \in Calls, Begin(c, k)
      PROVE  \A p \in Requests : CallInv(p)'
  <2>1. /\ step[c] = "idle" /\ step'[c] = "url" /\ at'[c] = "idle" /\ body'[c] = "none"
        /\ err'[c] = "pending" /\ call'[c] = k
    BY <1>0, <1>2 DEF Begin, Goes, CallInv, ClientTypeOK, vars
  <2>2. CallInv(c)'
    BY <2>1 DEF CallInv
  <2>3. \A p \in Requests \ {c} : CallInv(p)'
    BY <1>0, <1>2, OtherCalls, CallKept
  <2>4. QED BY <2>2, <2>3
<1>3. ASSUME NEW c \in Requests, NEW q \in [method : Methods, path : Paths], Visit(c, q)
      PROVE  \A p \in Requests : CallInv(p)'
  <2>1. step'[c] = "other" /\ err'[c] = "pending"
    BY <1>0, <1>3 DEF Visit, Goes, CallInv, ClientTypeOK
  <2>2. CallInv(c)'
    BY <2>1 DEF CallInv
  <2>3. \A p \in Requests \ {c} : CallInv(p)'
    BY <1>0, <1>3, OtherCalls, CallKept
  <2>4. QED BY <2>2, <2>3
<1>4. ASSUME NEW c \in Requests, ServerStep(c) PROVE \A p \in Requests : CallInv(p)'
  <2>1. \A p \in Requests : SameCall(p)
    BY <1>4 DEF ServerStep, clientVars, SameCall
  <2>2. SameAnswer(c)
    BY <1>4, NotServed DEF ServerStep, SameAnswer
  <2>3. \A p \in Requests \ {c} : SameAnswer(p)
    BY <1>0, <1>4, OthersUnmoved DEF ServerStep, Unmoved, SameAnswer
  <2>4. QED BY <1>0, <2>1, <2>2, <2>3, CallKept
<1>5. ASSUME NEW c \in Requests, Browse(c) PROVE \A p \in Requests : CallInv(p)'
  <2>1. \A p \in Requests : SameCall(p)
    BY <1>5 DEF Browse, clientVars, SameCall
  <2>2. CallInv(c)'
    BY <1>0, <1>5, <2>1 DEF Browse, CallInv, SameCall
  <2>3. \A p \in Requests \ {c} : SameAnswer(p)
    BY <1>0, <1>5, OthersUnmoved DEF Browse, Unmoved, SameAnswer
  <2>4. QED BY <1>0, <2>1, <2>2, <2>3, CallKept
<1>6. CASE UNCHANGED allVars
  <2>1. \A p \in Requests : SameCall(p) /\ SameAnswer(p)
    BY <1>6 DEF allVars, vars, clientVars, SameCall, SameAnswer
  <2>2. QED BY <1>0, <2>1, CallKept
<1>7. QED
  BY <1>1, <1>2, <1>3, <1>4, <1>5, <1>6 DEF ClientNext, AllReturned

\* Before any call is begun nothing is chosen, received or returned.
LEMMA ClientInitInv == ClientInit => ClientIInv
<1> SUFFICES ASSUME ClientInit PROVE ClientIInv
  OBVIOUS
<1>1. IInv /\ Init
  BY InitIInv DEF ClientInit
<1>2. ClientTypeOK
  BY <1>1 DEF ClientInit, ClientTypeOK, IInv, Errors
<1>3. ASSUME NEW c \in Requests PROVE CallInv(c)
  <2>1. /\ step[c] = "idle" /\ at[c] = "idle" /\ body[c] = "none" /\ err[c] = "pending"
    BY <1>1 DEF ClientInit, Init
  <2>2. QED BY <2>1 DEF CallInv
<1>4. QED BY <1>1, <1>2, <1>3 DEF ClientIInv

\* The calls and the requests of others keep their invariant together.
THEOREM ClientInductive == ClientSpec => []ClientIInv
<1>1. ClientIInv /\ IInv' /\ [ClientNext]_allVars => ClientIInv'
  BY ClientTypeStep, CallStep DEF ClientIInv, IInv
<1>2. QED BY ClientInitInv, <1>1, ServedCallsKeep, PTL DEF ClientSpec

\* The state of the calls keeps its types.
THEOREM ClientTypes == ClientSpec => []ClientTypeOK
<1>1. ClientIInv => ClientTypeOK
  BY DEF ClientIInv
<1>2. QED BY ClientInductive, <1>1, PTL

\* The request that is served for a call is its own.
OwnRequest(c) ==
    step[c] \in {"sent", "read", "conclude", "returned"} /\ at[c] # "idle" =>
        req[c] = RequestOf(c)

\* Only the call's own steps begin its request, and no redirect is followed for it.
LEMMA OwnRequestStep ==
    ASSUME ClientIInv, \A c \in Requests : OwnRequest(c), [ClientNext]_allVars
    PROVE  \A c \in Requests : OwnRequest(c)'
<1> SUFFICES ASSUME NEW p \in Requests PROVE OwnRequest(p)'
  OBVIOUS
<1> USE DEF Goes, Return
<1>0. TypeOK /\ ClientTypeOK /\ OwnRequest(p) /\ CallInv(p)
  BY DEF ClientIInv, IInv
<1>1. ASSUME step'[p] = step[p], call'[p] = call[p], at[p] = "idle" <=> at'[p] = "idle",
             req'[p] = req[p]
      PROVE  OwnRequest(p)'
  BY <1>0, <1>1 DEF OwnRequest, RequestOf
<1>2. ASSUME NEW c \in Requests \ {p},
             \/ Execute(c) \/ LoseAnswer(c)
             \/ \E k \in Calls : Begin(c, k)
             \/ \E q \in [method : Methods, path : Paths] : Visit(c, q)
      PROVE  OwnRequest(p)'
  <2>1. SameCall(p) /\ SameAnswer(p)
    BY <1>2, OtherCalls
  <2>2. UNCHANGED vars \/ \E q \in [method : Methods, path : Paths] : Arrive(c, q)
    <3>1. RequestOf(c) \in [method : Methods, path : Paths]
      BY DEF RequestOf, Methods, Paths
    <3>2. QED
      BY <1>2, <3>1 DEF Execute, ServerURLWithContext, CheckUsage, PrepareRequest, Send,
         SendFails, LoseAnswer, Receive, ReadBody, Conclude, Begin, Visit
  <2>3. req'[p] = req[p] /\ at'[p] = at[p]
    BY <1>0, <2>2, OthersUnmoved DEF vars, Unmoved
  <2>4. QED BY <1>1, <2>1, <2>3 DEF SameCall
<1>3. ASSUME NEW c \in Requests, ServerStep(c) PROVE OwnRequest(p)'
  <2>1. step'[p] = step[p] /\ call'[p] = call[p] /\ req' = req
    BY <1>3 DEF ServerStep, clientVars, Serve, Cors, Wrap, Answer, Recover, Log, Panic
  <2>2. at[p] = "idle" <=> at'[p] = "idle"
    BY <1>0, <1>3 DEF ServerStep, Serve, Cors, Wrap, Answer, Recover, Log, Panic, Goto, TypeOK
  <2>3. QED BY <1>1, <2>1, <2>2
<1>4. ASSUME NEW c \in Requests, Browse(c) PROVE OwnRequest(p)'
  <2>1. CASE c = p
    BY <1>4, <2>1 DEF Browse, clientVars, OwnRequest
  <2>2. CASE c # p
    <3>1. Unmoved(p) /\ step'[p] = step[p] /\ call'[p] = call[p]
      BY <1>0, <1>4, <2>2, OthersUnmoved DEF Browse, clientVars
    <3>2. QED BY <1>1, <3>1 DEF Unmoved
  <2>3. QED BY <2>1, <2>2
<1>5. CASE Send(p)
  BY <1>0, <1>5 DEF Send, Arrive, OwnRequest, RequestOf, TypeOK, ClientTypeOK
<1>6. CASE (Execute(p) /\ ~Send(p)) \/ LoseAnswer(p)
  <2>1. UNCHANGED <<vars, call>>
    BY <1>6 DEF Execute, ServerURLWithContext, CheckUsage, PrepareRequest, SendFails,
       LoseAnswer, Receive, ReadBody, Conclude
  <2>2. step[p] \in {"sent", "read", "conclude", "returned"} \/ at[p] = "idle"
    BY <1>0, <1>6 DEF CallInv, Execute, ServerURLWithContext, CheckUsage, PrepareRequest,
       SendFails, LoseAnswer, Receive, ReadBody, Conclude
  <2>3. QED BY <1>0, <2>1, <2>2 DEF OwnRequest, RequestOf, vars
<1>7. ASSUME \/ \E k \in Calls : Begin(p, k)
             \/ \E q \in [method : Methods, path : Paths] : Visit(p, q)
      PROVE  OwnRequest(p)'
  BY <1>0, <1>7 DEF Begin, Visit, OwnRequest, ClientTypeOK
<1>8. CASE UNCHANGED allVars
  BY <1>1, <1>8 DEF allVars, vars, clientVars
<1>9. QED
  BY <1>2, <1>3, <1>4, <1>5, <1>6, <1>7, <1>8 DEF ClientNext, AllReturned

\* What Execute returns agrees with what the server did, for any number of calls.
THEOREM OutcomesTell == ClientSpec => []OutcomeTellsTheAnswer
<1> DEFINE Owned == \A c \in Requests : OwnRequest(c)
<1>1. ClientInit => Owned
  BY DEF ClientInit, OwnRequest
<1>2. ClientIInv /\ Owned /\ Bodies => OutcomeTellsTheAnswer
  <2> SUFFICES ASSUME ClientIInv, Owned, Bodies, NEW c \in Requests, step[c] = "returned"
               PROVE  /\ err[c] = "none" => wire[c] \in 200 .. 299
                      /\ err[c] = "status" =>
                           /\ status[c] = wire[c] /\ wire[c] >= 300
                           /\ model[c] <=> wire[c] \in Documented(call[c].op)
                      /\ content[c] = "mixed" =>
                           call[c].op = "ApiHastxTxHashGet" /\ panicked[c]
                      /\ err[c] \in {"none", "status", "body"} => status[c] # 0
                      /\ err[c] \in {"url", "usage", "request", "scheme"} => at[c] = "idle"
                      /\ body[c] = "open" => err[c] = "dump" /\ cfg.debug
    BY DEF OutcomeTellsTheAnswer
  <2>1. Outcome(c) /\ status[c] \in {0} \cup Statuses /\ call[c] \in Calls
    BY DEF ClientIInv, CallInv, ClientTypeOK
  <2>2. err[c] = "none" => wire[c] \in 200 .. 299
    BY <2>1 DEF Outcome, Statuses
  <2>3. ASSUME content[c] = "mixed" PROVE call[c].op = "ApiHastxTxHashGet" /\ panicked[c]
    <3>1. wire[c] # 0 /\ panicked[c] /\ Route(req[c]) = "hastx"
      BY <2>3 DEF BodyInv, Bodies
    <3>2. req[c] = RequestOf(c)
      BY <3>1 DEF ClientIInv, IInv, PathInv, OwnRequest
    <3>3. call[c].op # "ApiSubmitTxPost"
      BY <3>1, <3>2 DEF RequestOf, Route
    <3>4. QED BY <2>1, <3>1, <3>3, CallsAssumption
  <2>4. QED BY <2>1, <2>2, <2>3 DEF Outcome
<1>3. ClientIInv /\ Owned /\ [ClientNext]_allVars => Owned'
  BY OwnRequestStep
<1>4. QED
  BY ClientInductive, ServedAsRouting, BodiesInductive, <1>1, <1>2, <1>3, PTL DEF ClientSpec

\* The most specific setting names the server, whatever the configuration lists.
THEOREM SpecificAlwaysWins == ClientSpec => []MostSpecificWins
<1>1. ClientIInv => MostSpecificWins
  <2> SUFFICES ASSUME ClientIInv, NEW c \in Requests,
                      step[c] \notin {"idle", "other", "url"}, err[c] # "url"
               PROVE  LET ctx == call[c].ctx
                      IN  /\ \E i \in DOMAIN ServerList(c) :
                               /\ server[c].kind = ServerList(c)[i]
                               /\ ctx.operationIndex \in {"first", "second"} =>
                                    i = Position(ctx.operationIndex)
                          /\ ctx.operationVariables \in {"listed", "unlisted"} =>
                               server[c].value = ctx.operationVariables
                          /\ server[c].kind = "enum" => server[c].value # "unlisted"
    BY DEF MostSpecificWins
  <2>1. ClientTypeOK /\ Chosen(c) /\ call[c] \in Calls /\ Resolves(c)
    BY DEF ClientIInv, CallInv, Chosen
  <2>2. Position(IndexOf(c)) \in DOMAIN ServerList(c)
    BY <2>1, ChosenTypes
  <2>3. /\ server[c].kind = ServerList(c)[Position(IndexOf(c))]
        /\ server[c].value = ValueOf(c)
    BY <2>1 DEF Chosen
  <2>4. call[c].ctx.operationIndex \in {"first", "second"} =>
          IndexOf(c) = call[c].ctx.operationIndex
    BY DEF IndexOf, Setting
  <2>5. call[c].ctx.operationVariables \in {"listed", "unlisted"} =>
          ValueOf(c) = call[c].ctx.operationVariables
    BY DEF ValueOf, Setting
  <2>6. server[c].kind = "enum" => server[c].value # "unlisted"
    BY <2>1, <2>3 DEF Resolves
  <2>7. QED BY <2>2, <2>3, <2>4, <2>5, <2>6
<1>2. QED BY ClientInductive, <1>1, PTL

\* How far a call is.
Place(s) ==
    CASE s = "idle" -> 0
      [] s = "url" -> 1
      [] s = "usage" -> 2
      [] s = "prepare" -> 3
      [] s = "call" -> 4
      [] s = "sent" -> 5
      [] s = "read" -> 6
      [] s = "conclude" -> 7
      [] s \in {"returned", "other"} -> 8

\* A call stays as it is or goes on.
Proceeds(c) == SameCall(c) \/ Place(step'[c]) > Place(step[c])

\* Execute goes one way: it sends one request at most, since nothing is tried again,
\* and what it returned is not changed by an answer that comes after it gave up.
THEOREM CallsProceed == ClientSpec => [][\A c \in Requests : Proceeds(c)]_allVars
<1>1. ClientIInv /\ [ClientNext]_allVars => [\A c \in Requests : Proceeds(c)]_allVars
  <2> SUFFICES ASSUME ClientIInv, ClientNext
               PROVE  UNCHANGED allVars \/ \A p \in Requests : Proceeds(p)
    OBVIOUS
  <2> DEFINE Steps == {"idle", "url", "usage", "prepare", "call", "sent", "read",
                       "conclude", "returned", "other"}
  <2>0. /\ ClientTypeOK
        /\ step \in [Requests -> Steps]
    BY DEF ClientIInv, ClientTypeOK
  <2>1. ASSUME NEW c \in Requests, NEW from \in Steps, NEW to \in Steps, Goes(c, from, to),
               Place(to) > Place(from)
        PROVE  Proceeds(c)
    BY <2>0, <2>1 DEF Goes, Proceeds
  <2>2. ASSUME NEW c \in Requests, Execute(c) \/ LoseAnswer(c) PROVE Proceeds(c)
    <3>1. CASE ServerURLWithContext(c) \/ CheckUsage(c) \/ PrepareRequest(c)
      BY <2>1, <3>1 DEF ServerURLWithContext, CheckUsage, PrepareRequest, Return, Place
    <3>2. CASE Send(c) \/ SendFails(c) \/ LoseAnswer(c)
      BY <2>1, <3>2 DEF Send, SendFails, LoseAnswer, Return, Place
    <3>3. CASE Receive(c) \/ ReadBody(c) \/ Conclude(c)
      BY <2>1, <3>3 DEF Receive, ReadBody, Conclude, Return, Place
    <3>4. QED BY <2>2, <3>1, <3>2, <3>3 DEF Execute
  <2>3. ASSUME NEW c \in Requests,
               \/ \E k \in Calls : Begin(c, k)
               \/ \E q \in [method : Methods, path : Paths] : Visit(c, q)
        PROVE  Proceeds(c)
    BY <2>1, <2>3 DEF Begin, Visit, Place
  <2>4. ASSUME NEW c \in Requests,
               \/ Execute(c) \/ LoseAnswer(c)
               \/ \E k \in Calls : Begin(c, k)
               \/ \E q \in [method : Methods, path : Paths] : Visit(c, q)
        PROVE  \A p \in Requests : Proceeds(p)
    <3>1. \A p \in Requests \ {c} : SameCall(p)
      BY <2>4, OtherCalls
    <3>2. QED BY <2>2, <2>3, <2>4, <3>1 DEF Proceeds
  <2>5. ASSUME NEW c \in Requests, ServerStep(c) \/ Browse(c)
        PROVE  \A p \in Requests : Proceeds(p)
    BY <2>5 DEF ServerStep, Browse, clientVars, SameCall, Proceeds
  <2>6. QED BY <2>4, <2>5 DEF ClientNext, AllReturned
<1>2. QED BY ClientInductive, <1>1, PTL DEF ClientSpec

==============================================================================
