------------------------ MODULE DashboardServerProofs ------------------------
(***************************************************************************)
(* Proofs about DashboardServer for every value of its constants: the      *)
(* type invariant, and RequestDeterministic, the routing contract for      *)
(* requests during which the directory did not change.                    *)
(***************************************************************************)
EXTENDS DashboardServer, TLAPS

(***************************************************************************)
(* The serving thread's control state: it handles a connection exactly    *)
(* when it is not in select, and once it is about to open a file it holds  *)
(* the route do_GET computed for the request that connection sent.         *)
(***************************************************************************)
ServerShape ==
    /\ (srv = "select") <=> (cur = None)
    /\ srv = "open" => route # None /\ req[cur] # None
    /\ srv # "open" => route = None

\* The pending route is do_GET's rewrite of the request, computed from the
\* lifecycle existence the same step observed.
RouteFaithful ==
    route # None =>
        /\ req[cur].method \in {"GET", "HEAD"}
        /\ route.lc = route.fs[LifecycleDash]
        /\ route.path = IF req[cur].method = "GET"
                        THEN do_GET_path(req[cur].path, route.lc)
                        ELSE req[cur].path

\* Every GET response is send_head applied to do_GET's rewrite.
RespFaithful ==
    \A c \in Clients :
        Answered(c) /\ resp[c].req.method = "GET" =>
            LET q == do_GET_path(resp[c].req.path, resp[c].lc) IN
            /\ resp[c].status = send_head_status(q, resp[c].fs)
            /\ resp[c].served = send_head_served(q, resp[c].fs)
            /\ resp[c].stable => resp[c].lc = resp[c].fs[LifecycleDash]

IInv == TypeOK /\ ServerShape /\ RouteFaithful /\ RespFaithful

-----------------------------------------------------------------------------
(***************************************************************************)
(* Lemmas about the operators the handler is built from.                   *)
(***************************************************************************)
USE ConstantsAssumption, SentinelAssumption, RouteSentinelAssumption

LEMMA RewriteType ==
    ASSUME NEW p \in Paths, NEW b \in BOOLEAN
    PROVE  do_GET_path(p, b) \in PathType
<1>1. CASE IsAlias(p)
      <2>1. AliasTarget(p.seg, b) \in Files
            BY <1>1 DEF IsAlias, AliasWords, AliasTarget, Root, Seg,
                        DashboardIndex, UnsafeDashV2, MemoryDash, ClassicIndex,
                        LifecycleDash
      <2>2. QED BY <1>1, <2>1 DEF do_GET_path, PathType
<1>2. CASE ~IsAlias(p)
      BY <1>2 DEF do_GET_path, PathType
<1>3. QED BY <1>1, <1>2

LEMMA SendHeadType ==
    ASSUME NEW p \in PathType, NEW disk \in [Files -> BOOLEAN]
    PROVE  /\ send_head_status(p, disk) \in Statuses
           /\ send_head_served(p, disk) \in Files \cup {Root, None}
           /\ end_headers_cache(p) \in BOOLEAN
<1>1. send_head_status(p, disk) \in Statuses
      BY DEF send_head_status, Statuses
<1>2. send_head_served(p, disk) \in Files \cup {Root, None}
      BY DEF send_head_served, send_head_status, ClassicIndex, Seg
<1>3. end_headers_cache(p) \in BOOLEAN
      BY DEF end_headers_cache, PathType
<1>4. QED BY <1>1, <1>2, <1>3

LEMMA LogLinesType ==
    ASSUME NEW p \in PathType, NEW s \in Statuses
    PROVE  LogLines(p, s) \in Seq(LogClasses)
<1>1. \A x, y \in BOOLEAN : log_message(x, y) \in LogClasses
      BY DEF log_message, LogClasses
<1> DEFINE reqLine == log_message("200" \in p.mentions \/ s = 200,
                                  "404" \in p.mentions \/ s = 404)
           errLine == log_message(FALSE, s = 404)
<1>2. reqLine \in LogClasses /\ errLine \in LogClasses
      BY <1>1
<1> HIDE DEF reqLine, errLine
<1>3. \A x, y \in LogClasses : <<x>> \in Seq(LogClasses) /\ <<x, y>> \in Seq(LogClasses)
      OBVIOUS
<1>4. <<reqLine>> \in Seq(LogClasses) /\ <<errLine, reqLine>> \in Seq(LogClasses)
      BY <1>2, <1>3
<1>5. LogLines(p, s) = IF s = 200 THEN <<reqLine>> ELSE <<errLine, reqLine>>
      BY DEF LogLines, reqLine, errLine
<1>6. QED BY <1>4, <1>5

-----------------------------------------------------------------------------
(***************************************************************************)
(* Type correctness.  TypeOK alone is not inductive: ReadRequest and Open  *)
(* read req[cur] and route, which are well typed only because of the       *)
(* serving thread's control state, ServerShape.                            *)
(***************************************************************************)
TypeShape == TypeOK /\ ServerShape

LEMMA TypeShapeInit == Init => TypeShape
BY DEF Init, TypeShape, TypeOK, ServerShape

LEMMA TypeShapeStep == TypeShape /\ [Next]_vars => TypeShape'
<1> SUFFICES ASSUME TypeOK, ServerShape, [Next]_vars
             PROVE  TypeOK' /\ ServerShape'
    BY DEF TypeShape
<1>1. ASSUME NEW c \in Clients, Connect(c) PROVE TypeOK' /\ ServerShape'
      BY <1>1 DEF Connect, TypeOK, ServerShape
<1>2. ASSUME NEW c \in Clients, Send(c) PROVE TypeOK' /\ ServerShape'
      BY <1>2 DEF Send, TypeOK, ServerShape
<1>3. ASSUME NEW c \in Clients, Accept(c) PROVE TypeOK' /\ ServerShape'
      BY <1>3 DEF Accept, TypeOK, ServerShape
<1>4. ASSUME NEW f \in Mutable, ChangeFile(f) PROVE TypeOK' /\ ServerShape'
      BY <1>4 DEF ChangeFile, TypeOK, ServerShape
<1>5. CASE ReadRequest
      <2>1. cur \in Clients /\ req[cur] \in Request
            BY <1>5 DEF ReadRequest, TypeOK, ServerShape
      <2>2. req[cur].path \in PathType /\ req[cur].path \in Paths
            /\ req[cur].method \in Methods
            BY <2>1 DEF Request
      <2>3. CASE req[cur].method \in {"GET", "HEAD"}
            <3>1. /\ route' = [path |-> IF req[cur].method = "GET"
                                       THEN do_GET_path(req[cur].path, fs[LifecycleDash])
                                       ELSE req[cur].path,
                              lc |-> fs[LifecycleDash], fs |-> fs]
                  /\ srv' = "open"
                  /\ UNCHANGED <<fs, running, cur, backlog, connected, req, resp>>
                  BY <1>5, <2>3 DEF ReadRequest
            <3>2. fs[LifecycleDash] \in BOOLEAN
                  BY DEF TypeOK
            <3>3. do_GET_path(req[cur].path, fs[LifecycleDash])
                    \in {do_GET_path(p, b) : p \in Paths, b \in BOOLEAN}
                  BY <2>2, <3>2
            <3>4. route' \in RouteType
                  BY <2>2, <3>1, <3>2, <3>3 DEF TypeOK, RouteType
            <3>5. QED BY <2>1, <3>1, <3>4 DEF TypeOK, ServerShape
      <2>4. CASE req[cur].method \notin {"GET", "HEAD"}
            <3> DEFINE r == req[cur]
                       out == [req |-> r, status |-> 501, served |-> None,
                               cache |-> end_headers_cache(r.path),
                               lines |-> LogLines(r.path, 501),
                               lc |-> fs[LifecycleDash], stable |-> TRUE, fs |-> fs]
            <3>1. /\ resp' = [resp EXCEPT ![cur] = out]
                  /\ srv' = "select" /\ cur' = None /\ route' = route
                  /\ UNCHANGED <<fs, running, backlog, connected, req>>
                  BY <1>5, <2>4 DEF ReadRequest
            <3>2. end_headers_cache(r.path) \in BOOLEAN
                  BY <2>2, SendHeadType DEF TypeOK
            <3>3. LogLines(r.path, 501) \in Seq(LogClasses)
                  BY <2>2, LogLinesType DEF Statuses
            <3>4. out \in Response
                  BY <2>1, <3>2, <3>3 DEF Response, Statuses, TypeOK
            <3>5. route = None
                  BY <1>5 DEF ReadRequest, ServerShape
            <3>6. QED BY <2>1, <3>1, <3>4, <3>5 DEF TypeOK, ServerShape
      <2>5. QED BY <2>3, <2>4
<1>6. CASE Open
      <2>1. cur \in Clients /\ req[cur] \in Request /\ route # None
            BY <1>6 DEF Open, TypeOK, ServerShape
      <2>2. route.path \in PathType /\ route.lc \in BOOLEAN /\ route.fs \in [Files -> BOOLEAN]
            <3>1. route.path \in Paths \cup {do_GET_path(p, b) : p \in Paths, b \in BOOLEAN}
                  BY <2>1 DEF TypeOK, RouteType
            <3>2. QED BY <2>1, <3>1, RewriteType DEF TypeOK, RouteType
      <2> DEFINE p == route.path
                 s == send_head_status(p, fs)
                 out == [req |-> req[cur], status |-> s,
                         served |-> send_head_served(p, fs),
                         cache |-> end_headers_cache(p),
                         lines |-> LogLines(req[cur].path, s),
                         lc |-> route.lc, stable |-> route.fs = fs, fs |-> fs]
      <2>3. req[cur].path \in PathType
            BY <2>1 DEF Request
      <2>4. /\ s \in Statuses
            /\ send_head_served(p, fs) \in Files \cup {Root, None}
            /\ end_headers_cache(p) \in BOOLEAN
            BY <2>2, SendHeadType DEF TypeOK
      <2>5. LogLines(req[cur].path, s) \in Seq(LogClasses)
            BY <2>3, <2>4, LogLinesType
      <2>6. out \in Response
            BY <2>1, <2>2, <2>4, <2>5 DEF Response, TypeOK
      <2>7. /\ resp' = [resp EXCEPT ![cur] = out]
            /\ srv' = "select" /\ cur' = None /\ route' = None
            /\ UNCHANGED <<fs, running, backlog, connected, req>>
            BY <1>6 DEF Open
      <2>8. QED BY <2>1, <2>6, <2>7 DEF TypeOK, ServerShape
<1>7. CASE Interrupt
      <2>1. resp' \in [Clients -> Response \cup {Aborted, Reset, None}]
            BY <1>7 DEF Interrupt, TypeOK
      <2>2. /\ cur' = None /\ backlog' = {} /\ route' = None /\ srv' = "select"
            /\ running' = FALSE /\ UNCHANGED <<fs, connected, req>>
            BY <1>7 DEF Interrupt
      <2>3. QED BY <2>1, <2>2 DEF TypeOK, ServerShape
<1>8. CASE UNCHANGED vars
      BY <1>8 DEF vars, TypeOK, ServerShape
<1>9. QED BY <1>1, <1>2, <1>3, <1>4, <1>5, <1>6, <1>7, <1>8 DEF Next

\* TypeOK: every variable of the serving loop always holds a value of its
\* type, whatever the files, paths and clients (DashboardHandler, lines 31-76).
THEOREM TypeCorrect == Spec => []TypeOK
<1>1. Spec => []TypeShape
      BY TypeShapeInit, TypeShapeStep, PTL DEF Spec
<1>2. QED BY <1>1, PTL DEF TypeShape

-----------------------------------------------------------------------------
\* Every row of the contract's alias table is an alias word with the
\* target do_GET's chain picks for it.
LEMMA AliasRowsMatchChain ==
    ASSUME NEW disk \in [Files -> BOOLEAN], NEW row \in SpecAliasRows(disk)
    PROVE  /\ row[1] \in AliasWords
           /\ row[2] = AliasTarget(row[1], disk[LifecycleDash])
<1>1. CASE row = <<Root, DashboardIndex>>
      BY <1>1 DEF AliasWords, AliasTarget, Root, Seg
<1>2. CASE row = <<Seg("unsafe", ""), UnsafeDashV2>>
      BY <1>2 DEF AliasWords, AliasTarget, Root, Seg
<1>3. CASE row = <<Seg("memory", ""), MemoryDash>>
      BY <1>3 DEF AliasWords, AliasTarget, Root, Seg
<1>4. CASE row = <<Seg("classic", ""), ClassicIndex>>
      BY <1>4 DEF AliasWords, AliasTarget, Root, Seg
<1>5. CASE row = <<Seg("lifecycle", ""),
                   IF disk[LifecycleDash] THEN LifecycleDash ELSE MemoryDash>>
      BY <1>5 DEF AliasWords, AliasTarget, Root, Seg
<1>6. QED BY <1>1, <1>2, <1>3, <1>4, <1>5 DEF SpecAliasRows

(***************************************************************************)
(* The code's routing meets the contract: for every path and every         *)
(* directory, do_GET's rewrite followed by send_head answers as the table  *)
(* of spec section 4.2 says, when the lifecycle test sees that directory. *)
(***************************************************************************)
LEMMA RoutingMeetsContract ==
    ASSUME NEW p \in Paths, NEW disk \in [Files -> BOOLEAN]
    PROVE  LET q == do_GET_path(p, disk[LifecycleDash])
               t == SpecTarget(p, disk)
           IN  t # None =>
                 /\ send_head_status(q, disk) = (IF disk[t] THEN 200 ELSE 404)
                 /\ send_head_status(q, disk) = 200 => send_head_served(q, disk) = t
<1> DEFINE lc == disk[LifecycleDash]
           q  == do_GET_path(p, lc)
           t  == SpecTarget(p, disk)
           rows == SpecAliasRows(disk)
<1>0. p \in PathType /\ lc \in BOOLEAN
      OBVIOUS
<1>1. CASE IsAlias(p)
      <2>1. \A row \in rows : row[1] = p.seg => row[2] = AliasTarget(p.seg, lc)
            BY AliasRowsMatchChain DEF rows, lc
      <2>2. \E row \in rows : row[1] = p.seg
            BY <1>1 DEF rows, SpecAliasRows, IsAlias, AliasWords
      <2>3. t = AliasTarget(p.seg, lc)
            BY <1>1, <2>1, <2>2 DEF t, SpecTarget, IsAlias
      <2>4. AliasTarget(p.seg, lc) \in Files
            BY <1>1 DEF IsAlias, AliasWords, AliasTarget, Root, Seg,
                        DashboardIndex, UnsafeDashV2, MemoryDash, ClassicIndex,
                        LifecycleDash
      <2>5. q = [seg |-> AliasTarget(p.seg, lc), slash |-> FALSE,
                 query |-> FALSE, mentions |-> {}]
            BY <1>1 DEF q, do_GET_path
      <2>6. QED BY <2>3, <2>4, <2>5 DEF send_head_status, send_head_served
<1>2. CASE ~IsAlias(p)
      <2>1. ~\E row \in rows : row[1] = p.seg /\ ~p.query
            BY <1>2, AliasRowsMatchChain DEF rows, IsAlias
      <2>2. t = IF p.seg \in Files /\ ~p.query /\ ~p.slash THEN p.seg ELSE None
            BY <2>1 DEF t, SpecTarget, rows
      <2>3. q = p
            BY <1>2 DEF q, do_GET_path
      <2>4. QED BY <2>2, <2>3 DEF send_head_status, send_head_served
<1>3. QED BY <1>1, <1>2

-----------------------------------------------------------------------------
(***************************************************************************)
(* RequestDeterministic.  It is not inductive: it speaks of responses      *)
(* only, and a response is produced from the route do_GET left one step   *)
(* earlier.  IInv adds what the route and each GET response record of the  *)
(* lifecycle observation they were computed from (RouteFaithful,          *)
(* RespFaithful); the contract then follows from RoutingMeetsContract.     *)
(***************************************************************************)
LEMMA IInvInit == Init => IInv
BY DEF Init, IInv, TypeOK, ServerShape, RouteFaithful, RespFaithful, Answered

LEMMA IInvStep == IInv /\ [Next]_vars => IInv'
<1> SUFFICES ASSUME IInv, [Next]_vars PROVE IInv'
    OBVIOUS
<1>0. TypeShape'
      BY TypeShapeStep DEF IInv, TypeShape
<1> USE DEF IInv, TypeShape
<1>1. ASSUME NEW c \in Clients, Connect(c) PROVE IInv'
      BY <1>0, <1>1 DEF Connect, RouteFaithful, RespFaithful, Answered
<1>2. ASSUME NEW c \in Clients, Send(c) PROVE IInv'
      <2>1. route # None => c # cur
            BY <1>2 DEF Send, ServerShape
      <2>2. RouteFaithful'
            BY <1>2, <2>1 DEF Send, RouteFaithful
      <2>3. RespFaithful'
            BY <1>2 DEF Send, RespFaithful, Answered
      <2>4. QED BY <1>0, <2>2, <2>3
<1>3. ASSUME NEW c \in Clients, Accept(c) PROVE IInv'
      BY <1>0, <1>3 DEF Accept, ServerShape, RouteFaithful, RespFaithful, Answered
<1>4. ASSUME NEW f \in Mutable, ChangeFile(f) PROVE IInv'
      BY <1>0, <1>4 DEF ChangeFile, RouteFaithful, RespFaithful, Answered
<1>5. CASE ReadRequest
      <2>1. cur \in Clients /\ req[cur] \in Request
            BY <1>5 DEF ReadRequest, TypeOK, ServerShape
      <2>2. CASE req[cur].method \in {"GET", "HEAD"}
            <3>1. /\ route' = [path |-> IF req[cur].method = "GET"
                                       THEN do_GET_path(req[cur].path, fs[LifecycleDash])
                                       ELSE req[cur].path,
                              lc |-> fs[LifecycleDash], fs |-> fs]
                  /\ UNCHANGED <<cur, req, resp>>
                  BY <1>5, <2>2 DEF ReadRequest
            <3>2. RouteFaithful'
                  BY <2>2, <3>1 DEF RouteFaithful
            <3>3. RespFaithful'
                  BY <3>1 DEF RespFaithful, Answered
            <3>4. QED BY <1>0, <3>2, <3>3
      <2>3. CASE req[cur].method \notin {"GET", "HEAD"}
            <3>1. /\ resp'[cur].req = req[cur]
                  /\ \A c \in Clients \ {cur} : resp'[c] = resp[c]
                  /\ route' = None /\ UNCHANGED req
                  BY <1>5, <2>1, <2>3 DEF ReadRequest, ServerShape, TypeOK
            <3>2. RouteFaithful'
                  BY <3>1 DEF RouteFaithful
            <3>3. RespFaithful'
                  BY <2>3, <3>1 DEF RespFaithful, Answered
            <3>4. QED BY <1>0, <3>2, <3>3
      <2>4. QED BY <2>2, <2>3
<1>6. CASE Open
      <2>1. cur \in Clients /\ req[cur] \in Request /\ route # None
            BY <1>6 DEF Open, TypeOK, ServerShape
      <2> DEFINE out == resp'[cur]
      <2>2. /\ out.req = req[cur]
            /\ out.status = send_head_status(route.path, fs)
            /\ out.served = send_head_served(route.path, fs)
            /\ out.lc = route.lc /\ out.fs = fs /\ out.stable = (route.fs = fs)
            /\ \A c \in Clients \ {cur} : resp'[c] = resp[c]
            /\ route' = None
            BY <1>6, <2>1 DEF Open, TypeOK
      <2>3. RespFaithful'
            <3>1. SUFFICES ASSUME NEW c \in Clients, Answered(c)', resp'[c].req.method = "GET"
                           PROVE  LET q == do_GET_path(resp'[c].req.path, resp'[c].lc) IN
                                  /\ resp'[c].status = send_head_status(q, resp'[c].fs)
                                  /\ resp'[c].served = send_head_served(q, resp'[c].fs)
                                  /\ resp'[c].stable => resp'[c].lc = resp'[c].fs[LifecycleDash]
                  BY DEF RespFaithful
            <3>2. CASE c = cur
                  <4>1. route.path = do_GET_path(req[cur].path, route.lc)
                        /\ route.lc = route.fs[LifecycleDash]
                        BY <2>1, <2>2, <3>1, <3>2 DEF RouteFaithful
                  <4>2. QED BY <2>2, <3>2, <4>1
            <3>3. CASE c # cur
                  BY <2>2, <3>1, <3>3 DEF RespFaithful, Answered
            <3>4. QED BY <3>2, <3>3
      <2>4. RouteFaithful'
            BY <2>2 DEF RouteFaithful
      <2>5. QED BY <1>0, <2>3, <2>4
<1>7. CASE Interrupt
      <2>1. /\ route' = None
            /\ \A c \in Clients : resp'[c] \in {Aborted, Reset, resp[c]}
            BY <1>7 DEF Interrupt
      <2>2. QED BY <1>0, <2>1 DEF RouteFaithful, RespFaithful, Answered
<1>8. CASE UNCHANGED vars
      BY <1>0, <1>8 DEF vars, RouteFaithful, RespFaithful, Answered
<1>9. QED BY <1>1, <1>2, <1>3, <1>4, <1>5, <1>6, <1>7, <1>8 DEF Next

LEMMA IInvImpliesDeterministic == IInv => RequestDeterministic
<1> SUFFICES ASSUME IInv, NEW c \in Clients, Answered(c),
                    resp[c].req.method = "GET", resp[c].stable
             PROVE  SpecAgrees(resp[c])
    BY DEF RequestDeterministic
<1>1. resp[c] \in Response
      BY DEF IInv, TypeOK, Answered
<1>2. resp[c].req.path \in Paths /\ resp[c].fs \in [Files -> BOOLEAN]
      BY <1>1 DEF Response, Request
<1>3. LET q == do_GET_path(resp[c].req.path, resp[c].fs[LifecycleDash]) IN
        /\ resp[c].status = send_head_status(q, resp[c].fs)
        /\ resp[c].served = send_head_served(q, resp[c].fs)
      BY DEF IInv, RespFaithful
<1>4. QED BY <1>2, <1>3, RoutingMeetsContract DEF SpecAgrees

\* RequestDeterministic: a GET during which no other process touched the
\* directory is answered as the routing contract says (do_GET, lines 47-65),
\* for every set of files, paths, methods and clients.
THEOREM RoutingCorrect == Spec => []RequestDeterministic
<1>1. Spec => []IInv
      BY IInvInit, IInvStep, PTL DEF Spec
<1>2. QED BY <1>1, IInvImpliesDeterministic, PTL
-----------------------------------------------------------------------------
(***************************************************************************)
(* ImplementsServerContract.  The contract's Answer needs the client in   *)
(* hand to be unanswered, and its Connect a client that was never         *)
(* answered; neither follows from the step alone.  ConnShape records the  *)
(* bookkeeping of the listening socket that gives both: the backlog and    *)
(* the connection in hand are connected, the one in hand has left the     *)
(* backlog, and none of them, nor any client that never connected, has a   *)
(* response.                                                               *)
(***************************************************************************)
ConnShape ==
    /\ backlog \subseteq connected
    /\ \A c \in backlog \cup (Clients \ connected) : resp[c] = None
    /\ cur # None => cur \in connected \ backlog /\ resp[cur] = None

RInv == IInv /\ ConnShape

LEMMA ConnShapeInit == Init => ConnShape
BY DEF Init, ConnShape

LEMMA ConnShapeStep == IInv /\ ConnShape /\ [Next]_vars => ConnShape'
<1> SUFFICES ASSUME IInv, ConnShape, [Next]_vars PROVE ConnShape'
    OBVIOUS
<1> USE DEF IInv, TypeShape
<1>1. ASSUME NEW c \in Clients, Connect(c) PROVE ConnShape'
      BY <1>1 DEF Connect, ConnShape
<1>2. ASSUME NEW c \in Clients, Send(c) PROVE ConnShape'
      BY <1>2 DEF Send, ConnShape
<1>3. ASSUME NEW c \in Clients, Accept(c) PROVE ConnShape'
      BY <1>3 DEF Accept, ConnShape, ServerShape
<1>4. ASSUME NEW f \in Mutable, ChangeFile(f) PROVE ConnShape'
      BY <1>4 DEF ChangeFile, ConnShape
<1>5. CASE ReadRequest
      <2>1. cur \in Clients /\ cur \in connected \ backlog
            BY <1>5 DEF ReadRequest, TypeOK, ServerShape, ConnShape
      <2>2. \A c \in backlog \cup (Clients \ connected) : c # cur
            BY <2>1
      <2>3. CASE req[cur].method \in {"GET", "HEAD"}
            BY <1>5, <2>3 DEF ReadRequest, ConnShape
      <2>4. CASE req[cur].method \notin {"GET", "HEAD"}
            <3>1. /\ \A c \in Clients \ {cur} : resp'[c] = resp[c]
                  /\ cur' = None
                  /\ UNCHANGED <<backlog, connected>>
                  BY <1>5, <2>1, <2>4 DEF ReadRequest, TypeOK
            <3>2. QED BY <2>1, <2>2, <3>1 DEF ConnShape, TypeOK
      <2>5. QED BY <2>3, <2>4
<1>6. CASE Open
      <2>1. cur \in Clients /\ cur \in connected \ backlog
            BY <1>6 DEF Open, TypeOK, ServerShape, ConnShape
      <2>2. \A c \in backlog \cup (Clients \ connected) : c # cur
            BY <2>1
      <2>3. /\ \A c \in Clients \ {cur} : resp'[c] = resp[c]
            /\ cur' = None
            /\ UNCHANGED <<backlog, connected>>
            BY <1>6, <2>1 DEF Open, TypeOK
      <2>4. QED BY <2>1, <2>2, <2>3 DEF ConnShape, TypeOK
<1>7. CASE Interrupt
      BY <1>7 DEF Interrupt, ConnShape, TypeOK
<1>8. CASE UNCHANGED vars
      BY <1>8 DEF vars, ConnShape
<1>9. QED BY <1>1, <1>2, <1>3, <1>4, <1>5, <1>6, <1>7, <1>8 DEF Next

LEMMA RInvInvariant == Spec => []RInv
<1>1. Init => RInv
      BY IInvInit, ConnShapeInit DEF RInv
<1>2. RInv /\ [Next]_vars => RInv'
      BY IInvStep, ConnShapeStep DEF RInv
<1>3. QED BY <1>1, <1>2, PTL DEF Spec

(***************************************************************************)
(* The two ways the handler answers -- a 501 for a method with no do_      *)
(* handler, and send_head's response -- write a response record, never a  *)
(* sentinel, into the slot of the connection in hand and no other.        *)
(***************************************************************************)
LEMMA AnswerWritten ==
    ASSUME TypeShape,
           \/ ReadRequest /\ req[cur].method \notin {"GET", "HEAD"}
           \/ Open
    PROVE  /\ cur \in Clients
           /\ resp'[cur] \in Response
           /\ resp'[cur].req = req[cur]
           /\ \A c \in Clients \ {cur} : resp'[c] = resp[c]
           /\ UNCHANGED <<running, connected, backlog, req>> /\ cur' = None
<1>1. cur \in Clients /\ req[cur] \in Request
      BY DEF TypeShape, TypeOK, ServerShape, ReadRequest, Open
<1>2. req[cur].path \in PathType
      BY <1>1 DEF Request
<1>3. CASE ReadRequest /\ req[cur].method \notin {"GET", "HEAD"}
      <2> DEFINE r == req[cur]
                 out == [req |-> r, status |-> 501, served |-> None,
                         cache |-> end_headers_cache(r.path),
                         lines |-> LogLines(r.path, 501),
                         lc |-> fs[LifecycleDash], stable |-> TRUE, fs |-> fs]
      <2>1. /\ resp' = [resp EXCEPT ![cur] = out]
            /\ UNCHANGED <<running, connected, backlog, req>> /\ cur' = None
            BY <1>3 DEF ReadRequest
      <2>2. end_headers_cache(r.path) \in BOOLEAN
            /\ LogLines(r.path, 501) \in Seq(LogClasses)
            BY <1>2, SendHeadType, LogLinesType DEF TypeShape, TypeOK, Statuses
      <2>3. out \in Response
            BY <1>1, <2>2 DEF Response, Statuses, TypeShape, TypeOK
      <2>4. QED BY <1>1, <2>1, <2>3 DEF TypeShape, TypeOK
<1>4. CASE Open
      <2>1. route # None
            BY <1>4 DEF Open, TypeShape, ServerShape
      <2>2. route.path \in PathType /\ route.lc \in BOOLEAN /\ route.fs \in [Files -> BOOLEAN]
            <3>1. route.path \in Paths \cup {do_GET_path(p, b) : p \in Paths, b \in BOOLEAN}
                  BY <2>1 DEF TypeShape, TypeOK, RouteType
            <3>2. QED BY <2>1, <3>1, RewriteType DEF TypeShape, TypeOK, RouteType
      <2> DEFINE p == route.path
                 s == send_head_status(p, fs)
                 out == [req |-> req[cur], status |-> s,
                         served |-> send_head_served(p, fs),
                         cache |-> end_headers_cache(p),
                         lines |-> LogLines(req[cur].path, s),
                         lc |-> route.lc, stable |-> route.fs = fs, fs |-> fs]
      <2>3. /\ s \in Statuses
            /\ send_head_served(p, fs) \in Files \cup {Root, None}
            /\ end_headers_cache(p) \in BOOLEAN
            BY <2>2, SendHeadType DEF TypeShape, TypeOK
      <2>4. LogLines(req[cur].path, s) \in Seq(LogClasses)
            BY <1>2, <2>3, LogLinesType
      <2>5. out \in Response
            BY <1>1, <2>2, <2>3, <2>4 DEF Response, TypeShape, TypeOK
      <2>6. /\ resp' = [resp EXCEPT ![cur] = out]
            /\ UNCHANGED <<running, connected, backlog, req>> /\ cur' = None
            BY <1>4 DEF Open
      <2>7. QED BY <1>1, <2>5, <2>6 DEF TypeShape, TypeOK
<1>5. QED BY <1>3, <1>4

\* A client with no response, or a closed connection, keeps that in Outcome.
LEMMA OutcomeOfUnanswered ==
    ASSUME NEW c \in Clients, resp[c] \in {None, Aborted, Reset}
    PROVE  Outcome[c] = resp[c]
BY DEF Outcome, Answered

LEMMA ServerContractInit == Init => Contract!Init
<1> SUFFICES ASSUME Init PROVE Contract!Init
    OBVIOUS
<1>1. \A c \in Clients : Outcome[c] = None
      BY OutcomeOfUnanswered DEF Init
<1>2. Outcome = [c \in Clients |-> None]
      BY <1>1 DEF Outcome
<1>3. QED BY <1>2 DEF Init, Contract!Init

LEMMA ServerContractStep ==
    RInv /\ [Next]_vars => [Contract!Next]_(Contract!cvars)
<1> SUFFICES ASSUME RInv, [Next]_vars PROVE [Contract!Next]_(Contract!cvars)
    OBVIOUS
<1> USE DEF RInv, IInv, TypeShape
\* A step that leaves every response alone leaves Outcome alone.
<1>0. UNCHANGED resp => UNCHANGED Outcome
      BY DEF Outcome, Answered
<1>1. ASSUME NEW c \in Clients, Connect(c) PROVE Contract!Connect(c)
      BY <1>1, <1>0 DEF Connect, Contract!Connect
<1>2. ASSUME NEW c \in Clients, Send(c) PROVE Contract!Send(c)
      <2>1. Outcome[c] = None
            BY <1>2, OutcomeOfUnanswered DEF Send
      <2>2. QED BY <1>2, <1>0, <2>1 DEF Send, Contract!Send, Request, Contract!Request
<1>3. ASSUME NEW c \in Clients, Accept(c) PROVE Contract!Take(c)
      BY <1>3, <1>0 DEF Accept, Contract!Take, ServerShape
<1>4. ASSUME NEW f \in Mutable, ChangeFile(f) PROVE UNCHANGED Contract!cvars
      BY <1>4, <1>0 DEF ChangeFile, Contract!cvars
<1>5. CASE ReadRequest /\ req[cur].method \in {"GET", "HEAD"}
      <2>1. UNCHANGED <<running, connected, backlog, cur, req, resp>>
            BY <1>5 DEF ReadRequest
      <2>2. QED BY <2>1, <1>0 DEF Contract!cvars
\* A 501 or send_head's response is the contract's Answer for cur.
<1>6. ASSUME \/ ReadRequest /\ req[cur].method \notin {"GET", "HEAD"}
             \/ Open
      PROVE  Contract!Answer
      <2>1. /\ cur \in Clients
            /\ resp'[cur] \in Response
            /\ resp'[cur].req = req[cur]
            /\ \A c \in Clients \ {cur} : resp'[c] = resp[c]
            /\ UNCHANGED <<running, connected, backlog, req>> /\ cur' = None
            BY <1>6, AnswerWritten
      <2>2. running /\ req[cur] # None /\ resp[cur] = None
            BY <1>6, <2>1 DEF ReadRequest, Open, ServerShape, ConnShape
      <2>3. Outcome[cur] = None
            BY <2>1, <2>2, OutcomeOfUnanswered
      <2>4. resp'[cur].status \in Contract!StatusFor(req[cur].method)
            <3>1. CASE ReadRequest /\ req[cur].method \notin {"GET", "HEAD"}
                  BY <3>1, <2>1 DEF ReadRequest, Contract!StatusFor, TypeOK
            <3>2. CASE Open
                  <4>1. req[cur].method \in {"GET", "HEAD"}
                        BY <3>2 DEF Open, ServerShape, RouteFaithful
                  <4>2. resp'[cur].status = send_head_status(route.path, fs)
                        BY <3>2, <2>1 DEF Open, TypeOK
                  <4>3. QED BY <4>1, <4>2 DEF send_head_status, Contract!StatusFor
            <3>3. QED BY <1>6, <3>1, <3>2
      <2>5. resp'[cur] \notin {None, Aborted, Reset}
            BY <2>1, SentinelAssumption
      <2>6. Outcome' = [Outcome EXCEPT ![cur] =
                          [req |-> req[cur], status |-> resp'[cur].status]]
            <3>1. Outcome'[cur] = [req |-> req[cur], status |-> resp'[cur].status]
                  BY <2>1, <2>5 DEF Outcome, Answered
            <3>2. \A c \in Clients \ {cur} : Outcome'[c] = Outcome[c]
                  BY <2>1 DEF Outcome, Answered
            <3>3. QED BY <2>1, <3>1, <3>2 DEF Outcome
      <2>7. QED BY <2>1, <2>2, <2>3, <2>4, <2>6 DEF Contract!Answer
<1>7. CASE Interrupt
      <2>1. \A c \in Clients : Outcome'[c] = IF c = cur THEN Aborted
                                             ELSE IF c \in backlog THEN Reset
                                             ELSE Outcome[c]
            <3>1. SUFFICES ASSUME NEW c \in Clients
                           PROVE  Outcome'[c] = IF c = cur THEN Aborted
                                               ELSE IF c \in backlog THEN Reset
                                               ELSE Outcome[c]
                  OBVIOUS
            <3>2. CASE c = cur \/ c \in backlog
                  BY <1>7, <3>2 DEF Interrupt, Outcome, Answered
            <3>3. CASE c # cur /\ c \notin backlog
                  BY <1>7, <3>3 DEF Interrupt, Outcome, Answered
            <3>4. QED BY <3>2, <3>3
      <2>2. Outcome' = [c \in Clients |-> IF c = cur THEN Aborted
                                          ELSE IF c \in backlog THEN Reset
                                          ELSE Outcome[c]]
            BY <2>1 DEF Outcome
      <2>3. Contract!Stop
            BY <1>7, <2>2 DEF Interrupt, Contract!Stop
      <2>4. QED BY <2>3 DEF Contract!Next
<1>8. CASE UNCHANGED vars
      BY <1>8, <1>0 DEF vars, Contract!cvars
<1>9. QED BY <1>1, <1>2, <1>3, <1>4, <1>5, <1>6, <1>7, <1>8
          DEF Next, Contract!Next

(***************************************************************************)
(* ImplementsServerContract: the single-threaded serving loop answers one *)
(* connection at a time, each once and for the request it sent, with 501  *)
(* exactly for methods without a do_ handler, and the interrupt closes    *)
(* only the connection in hand and the queued ones (serve_forever,         *)
(* handle_one_request, lines 527-533), for every value of the constants.  *)
(***************************************************************************)
THEOREM ServerContractRefined == Spec => ImplementsServerContract
<1>1. Spec => []RInv
      BY RInvInvariant
<1>2. Spec => Contract!Init
      BY ServerContractInit DEF Spec
<1>3. QED BY <1>1, <1>2, ServerContractStep, PTL
          DEF Spec, ImplementsServerContract, Contract!Spec
=============================================================================
