---------------------------- MODULE RestApiProofs ----------------------------
(***************************************************************************)
(* The REST API, for any number of requests and of instances.              *)
(***************************************************************************)
EXTENDS RestApi, SequenceTheorems, TLAPS

(* Where a handler is when it works on the instance of its target.         *)
Creating == {"create", "launch", "created", "launchFailed"}
Counted  == {"launch", "created", "launchFailed"}
Deleting == {"delete", "stop", "deleted", "stopFailed"}
Stopping == {"stop", "deleted", "stopFailed"}
Reading  == {"get", "logs"}

(* r created instance n: the registry has had it. *)
Made(r, n) ==
  /\ op[r] = "create" /\ target[r] = n /\ n \in Ids
  /\ pc[r] = "created" \/ code[r] = 201

(* r deleted instance n: it is out of the registry. *)
Removed(r, n) ==
  /\ op[r] = "delete" /\ Names(r, n) /\ target[r] = n /\ n \in Ids
  /\ pc[r] = "deleted" \/ code[r] = 204

(* A handler serves the operation called, on the id that was given. *)
Flow(r) ==
  /\ op[r] = "none" <=> pc[r] = "none"
  /\ op[r] \in {"get", "delete", "logs"} => id[r] \in IdArgs
  /\ pc[r] # "answered" => code[r] = 0
  /\ pc[r] \in {"none", "sent", "create"} => target[r] = Blank
  /\ pc[r] \in Creating => op[r] = "create" /\ token[r]
  /\ pc[r] \in Deleting => op[r] = "delete" /\ token[r]
  /\ pc[r] \in Reading  => op[r] \in Reading /\ token[r]
  /\ pc[r] \in Deleting \/ code[r] = 204 => Names(r, target[r])
  /\ pc[r] \in Reading \/ code[r] = 200 => Asked(r)[1] = target[r]
  /\ pc[r] \in Deleting \cup Reading \/ code[r] \in {200, 204} => Handler(r) # "refused"
  /\ pc[r] \in Stopping \/ code[r] \in {200, 204} => target[r] \in Ids
  /\ code[r] = 200 => op[r] \in Reading
  /\ code[r] = 201 => op[r] = "create"
  /\ code[r] = 204 => op[r] = "delete"
  /\ pc[r] \in Counted \/ code[r] = 201 => target[r] \in Ids
  /\ result[r] = "ok" => code[r] \in Expected(op[r])
  /\ result[r] = "error" => pc[r] = "answered" /\ code[r] \notin Expected(op[r])

FlowInv == \A r \in Requests : Flow(r)

(* A number is given to one create. *)
UniqueInv ==
  /\ \A r \in Requests : op[r] = "create" => target[r] \in 0..vmSeq
  /\ \A r, q \in Requests :
       op[r] = "create" /\ op[q] = "create" /\ target[r] = target[q] /\ target[r] # Blank => r = q

(* What is in the registry was made, and what was made is there or         *)
(* somebody asked that it go.  What was removed is not there: it was made *)
(* before, and is made once.                                               *)
MadeInv ==
  /\ \A n \in vms : \E r \in Requests : Made(r, n)
  /\ \A q \in Requests : pc[q] \in Stopping \/ code[q] = 204 =>
       \E r \in Requests : Made(r, target[q])
  /\ \A q \in Requests, n \in Ids : Removed(q, n) => n \notin vms
  /\ \A r \in Requests, n \in Ids : Made(r, n) =>
       n \in vms \/ AskedToGo(n)

(* What a caller knew is still so. *)
KnownInv ==
  \A r \in Requests :
    /\ \A n \in gone[r]  : \E q \in Requests : Removed(q, n)
    /\ \A n \in there[r] : \E q \in Requests : Made(q, n)
    /\ pc[r] \in Stopping \/ code[r] \in {200, 204} => target[r] \notin gone[r]

(* A caller that knew of an instance finds it. *)
FoundInv ==
  \A r \in Requests : op[r] \in Reading =>
    \A n \in there[r] :
      /\ Names(r, n) \/ NamesLogs(r, n)
      /\ token[r] /\ ~AskedToGo(n)
      => code[r] \in {0, 200}

RestInv == TypeOK /\ FlowInv /\ UniqueInv /\ MadeInv /\ KnownInv /\ FoundInv

-----------------------------------------------------------------------------
(***************************************************************************)
(* Routes                                                                  *)
(***************************************************************************)

LEMMA Numbers ==
  /\ Blank \notin Ids /\ Logs \notin Ids /\ Blank # Logs /\ Ids \subseteq Nat
  /\ Blank \in Nat /\ Logs \in Nat
  BY RestAssumption DEF Ids, Blank, Logs

LEMMA Decoded == ASSUME NEW s \in Segments PROVE Decode(s) \in 0..Logs
BY RestAssumption DEF Segments, Escaped, Decode, Logs

(* The URL that is sent for an argument has a segment at least. *)
LEMMA UrlShape ==
  ASSUME NEW i \in IdArgs, NEW o
  PROVE  /\ Url(o, i).segs \in Seq(Segments) /\ Len(Url(o, i).segs) >= 1
         /\ o = "logs" => Len(Url(o, i).segs) = Len(i.segs) + 1
<1>1. i.segs \in Seq(Segments) /\ i.seps \in Seq(Separators) /\ Len(i.segs) = Len(i.seps) + 1
  BY RestAssumption DEF Texts
<1>2. Len(i.segs) >= 1 /\ Logs \in Segments
  BY <1>1, RestAssumption DEF Segments, Escaped, Logs
<1> DEFINE a == Append(i.segs, Logs)
<1>3. a \in Seq(Segments) /\ Len(a) = Len(i.segs) + 1
  BY <1>1, <1>2, AppendProperties
<1>4. CASE o = "logs"
  <2>1. Url(o, i).segs = a
    BY <1>4 DEF Url
  <2>2. Len(i.segs) \in Nat
    BY <1>1
  <2> HIDE DEF a
  <2> QED BY <1>2, <1>3, <2>1, <2>2
<1>5. CASE o # "logs"
  <2>1. Url(o, i).segs = i.segs
    BY <1>5 DEF Url
  <2> QED BY <1>1, <1>2, <1>5, <2>1
<1> QED BY <1>4, <1>5

LEMMA CreateRoute == \A i : Path("create", i) = <<>> /\ Route("POST", <<>>) = "create"
  BY DEF Path, Route

LEMMA PathNotEmpty ==
  ASSUME NEW i \in IdArgs, NEW o \in {"get", "delete", "logs"}
  PROVE  Path(o, i) # <<>> /\ Path(o, i)[1] \in 0..Logs
<1> DEFINE t == Url(o, i)
<1>1. t.segs \in Seq(Segments) /\ Len(t.segs) >= 1
  BY UrlShape
<1>2. 1 \in DOMAIN t.segs /\ t.segs[1] \in Segments
  BY <1>1
<1>3. 1 \in Kept(t)
  BY <1>2 DEF Kept
<1>4. 1 \in DOMAIN Received(t) /\ Received(t)[1] = Decode(t.segs[1])
  BY <1>3 DEF Received
<1>5. Received(t) # <<>>
  BY <1>4
<1> QED BY <1>2, <1>4, <1>5, Decoded DEF Path

(* An id without a separator: the path is as long as the operation means.  *)
LEMMA PlainPath ==
  ASSUME NEW i \in IdArgs, i.seps = <<>>
  PROVE  ~IsLogs(Path("get", i)) /\ ~IsInstance(Path("logs", i))
<1>1. i.segs \in Seq(Segments) /\ Len(i.segs) = 1
  <2>1. /\ i.segs \in Seq(Segments) /\ i.seps \in Seq(Separators)
        /\ Len(i.segs) = Len(i.seps) + 1 /\ Len(i.seps) = 0
    BY RestAssumption DEF Texts
  <2> QED BY <2>1
<1>2. Kept(i) = {1}
  BY <1>1 DEF Kept
<1>3. 2 \notin DOMAIN Path("get", i)
  BY <1>2 DEF Path, Url, Received
<1>4. DOMAIN Append(i.segs, Logs) = 1..2
  <2>1. Url("logs", i).segs = Append(i.segs, Logs)
    BY DEF Url
  <2>2. Append(i.segs, Logs) \in Seq(Segments) /\ Len(Append(i.segs, Logs)) = 2
    <3>1. /\ Url("logs", i).segs \in Seq(Segments)
          /\ Len(Url("logs", i).segs) = Len(i.segs) + 1
      BY UrlShape
    <3> QED BY <1>1, <2>1, <3>1
  <2> QED BY <2>2
<1>5. Append(i.seps, "/")[1] = "/" 
  BY AppendProperties
<1>6. 2 \in DOMAIN Path("logs", i)
  <2>1. 2 \in Kept(Url("logs", i))
    BY <1>4, <1>5 DEF Kept, Url
  <2> QED BY <2>1 DEF Path, Received
<1> QED BY <1>3, <1>6 DEF IsLogs, IsInstance

(* The handlers that the paths of the operations reach. *)
LEMMA RouteMeans ==
  ASSUME NEW p, p # <<>>, NEW o \in {"get", "delete", "logs"}
  PROVE  LET h == Route(Method(o), p) IN
         /\ h \in {"get", "delete", "logs", "refused"}
         /\ h = "delete" => o = "delete" /\ IsInstance(p)
         /\ h = "get" => IsInstance(p)
         /\ h = "logs" => IsLogs(p)
         /\ h \in Reading => o \in Reading
         /\ o \in Reading /\ (IsInstance(p) \/ IsLogs(p)) => h \in Reading
BY DEF Route, Method, Reading

-----------------------------------------------------------------------------
(***************************************************************************)
(* The steps of a request                                                  *)
(***************************************************************************)
Called(r) ==
  \E o \in Operations, i \in IdArgs \cup {NoId}, t \in BOOLEAN :
    Call(r, o, i, t) /\ (o = "create" => i = NoId) /\ (o # "create" => i \in IdArgs)

Served(r) ==
  \/ Unauthorized(r) \/ ServeHTTP(r) \/ HandleCreate(r) \/ Launched(r)
  \/ HandleGet(r) \/ HandleDelete(r) \/ Stopped(r) \/ WriteHeader(r)

LEMMA StepOfOne ==
  ASSUME [Next]_vars
  PROVE  \/ UNCHANGED vars
         \/ StopAll \/ \E n \in Ids : Swept(n)
         \/ \E r \in Requests : Called(r) \/ Returns(r) \/ GivesUp(r) \/ Served(r)
BY DEF Next, AtRest, Called, Served, CreateInstance, GetInstance, DeleteInstance, GetInstanceLogs,
       Operations

(* Of the types, a frame needs the domains. *)
Shaped ==
  /\ DOMAIN op = Requests /\ DOMAIN id = Requests /\ DOMAIN token = Requests
  /\ DOMAIN gone = Requests /\ DOMAIN there = Requests /\ DOMAIN pc = Requests
  /\ DOMAIN target = Requests /\ DOMAIN code = Requests /\ DOMAIN result = Requests

LEMMA Shape == TypeOK => Shaped
  BY DEF TypeOK, Shaped

SameCall(q) ==
  op'[q] = op[q] /\ id'[q] = id[q] /\ token'[q] = token[q] /\ gone'[q] = gone[q] /\ there'[q] = there[q]
SameWork(q) == pc'[q] = pc[q] /\ target'[q] = target[q] /\ code'[q] = code[q]

(* The path of a request is that of its call. *)
LEMMA SamePath ==
  ASSUME NEW q \in Requests, SameCall(q)
  PROVE  /\ Asked(q)' = Asked(q) /\ Handler(q)' = Handler(q)
         /\ \A n : (Names(q, n)' <=> Names(q, n)) /\ (NamesLogs(q, n)' <=> NamesLogs(q, n))
<1>1. Asked(q)' = Asked(q)
  BY DEF SameCall, Asked
<1>2. Handler(q)' = Handler(q)
  BY <1>1 DEF SameCall, Handler
<1> QED BY <1>1, <1>2 DEF Names, NamesLogs

(* A step of one request is nothing to the others but what they share.     *)
LEMMA FrameCalled ==
  ASSUME Shaped, NEW r \in Requests, Called(r)
  PROVE  \A q \in Requests : q # r => SameCall(q) /\ SameWork(q) /\ result'[q] = result[q]
<1> SUFFICES ASSUME NEW o, NEW i, NEW t, Call(r, o, i, t)
             PROVE  \A q \in Requests : q # r => SameCall(q) /\ SameWork(q) /\ result'[q] = result[q]
  BY DEF Called
<1> QED BY DEF Shaped, SameCall, SameWork, Call, server

LEMMA FrameReturned ==
  ASSUME Shaped, NEW r \in Requests, Returns(r) \/ GivesUp(r)
  PROVE  \A q \in Requests : SameCall(q) /\ SameWork(q) /\ (q # r => result'[q] = result[q])
BY DEF Shaped, SameCall, SameWork, Returns, GivesUp, calls, serving

LEMMA FrameServed ==
  ASSUME Shaped, NEW r \in Requests, Served(r)
  PROVE  \A q \in Requests : SameCall(q) /\ result'[q] = result[q] /\ (q # r => SameWork(q))
<1> USE DEF Shaped, SameCall, SameWork, calls, Goto, Answer
<1>3. CASE Unauthorized(r)
  BY <1>3 DEF Unauthorized
<1>30. CASE ServeHTTP(r)
  BY <1>30 DEF ServeHTTP
<1>4. CASE HandleCreate(r)
  BY <1>4 DEF HandleCreate
<1>40. CASE Launched(r)
  BY <1>40 DEF Launched
<1>5. CASE HandleGet(r)
  BY <1>5 DEF HandleGet
<1>50. CASE HandleDelete(r)
  BY <1>50 DEF HandleDelete
<1>6. CASE Stopped(r)
  BY <1>6 DEF Stopped
<1>7. CASE WriteHeader(r)
  BY <1>7 DEF WriteHeader
<1> QED BY <1>3, <1>30, <1>4, <1>40, <1>5, <1>50, <1>6, <1>7 DEF Served

(* What ServeHTTP does with a request it lets pass. *)
LEMMA Routed ==
  ASSUME TypeOK, FlowInv, NEW r \in Requests, ServeHTTP(r)
  PROVE  /\ pc[r] = "sent" /\ token[r] /\ UNCHANGED <<server, sweeping, calls, result>>
         /\ \/ /\ pc'[r] = "answered" /\ code'[r] \in {404, 405} /\ target'[r] = Blank
               /\ Handler(r) = "refused"
            \/ /\ pc'[r] = "create" /\ op[r] = "create" /\ target'[r] = Blank /\ code'[r] = 0
            \/ /\ pc'[r] = "delete" /\ op[r] = "delete" /\ Names(r, target'[r])
               /\ Handler(r) # "refused" /\ target'[r] \in 0..Logs /\ code'[r] = 0
            \/ /\ pc'[r] \in Reading /\ op[r] \in Reading /\ Asked(r)[1] = target'[r]
               /\ Handler(r) # "refused" /\ target'[r] \in 0..Logs /\ code'[r] = 0
<1>1. pc[r] = "sent" /\ token[r] /\ UNCHANGED <<server, sweeping, calls, result>>
  BY DEF ServeHTTP, Goto, Answer
<1>2. code[r] = 0 /\ target[r] = Blank /\ op[r] # "none"
  BY <1>1 DEF FlowInv, Flow
<1>3. CASE Handler(r) = "refused"
  <2>1. pc'[r] = "answered" /\ code'[r] = Refusal(Asked(r)) /\ target' = target
    BY <1>3 DEF ServeHTTP, Goto, Answer, TypeOK
  <2> QED BY <1>1, <1>2, <1>3, <2>1 DEF Refusal
<1>4. CASE Handler(r) # "refused"
  <2>1. /\ pc'[r] = Handler(r) /\ code' = code
        /\ target'[r] = IF Asked(r) = <<>> THEN Blank ELSE Asked(r)[1]
    BY <1>4 DEF ServeHTTP, Goto, Answer, TypeOK
  <2>2. CASE op[r] = "create"
    <3>2. Asked(r) = <<>> /\ Handler(r) = "create"
      BY <2>2, CreateRoute DEF Asked, Handler, Method
    <3> QED BY <1>1, <1>2, <2>1, <2>2, <3>2
  <2>3. CASE op[r] # "create"
    <3>1. op[r] \in {"get", "delete", "logs"} /\ id[r] \in IdArgs
      BY <1>2, <2>3 DEF FlowInv, Flow, TypeOK, Operations
    <3>2. Asked(r) # <<>> /\ Asked(r)[1] \in 0..Logs
      BY <3>1, PathNotEmpty DEF Asked
    <3>3. /\ Handler(r) \in {"get", "delete", "logs"}
          /\ Handler(r) = "delete" => op[r] = "delete" /\ IsInstance(Asked(r))
          /\ Handler(r) \in Reading => op[r] \in Reading
      BY <1>4, <3>1, <3>2, RouteMeans DEF Handler
    <3> QED BY <1>1, <1>2, <1>4, <2>1, <3>2, <3>3 DEF Reading, Names
  <2> QED BY <2>2, <2>3
<1> QED BY <1>3, <1>4

-----------------------------------------------------------------------------
(***************************************************************************)
(* The invariant holds                                                     *)
(***************************************************************************)
LEMMA TypeStep ==
  ASSUME TypeOK, FlowInv, NEW r \in Requests, Called(r) \/ Returns(r) \/ GivesUp(r) \/ Served(r)
  PROVE  TypeOK'
<1> USE DEF TypeOK, calls, serving, server, Goto, Answer
<1>1. CASE Called(r)
  <2>1. PICK o \in Operations, i \in IdArgs \cup {NoId}, t \in BOOLEAN : Call(r, o, i, t)
    BY <1>1 DEF Called
  <2>2. \A o2 \in {"create", "delete"} : Told(o2) \subseteq Ids
    <3>1. \A q \in Requests : result[q] = "ok" /\ op[q] \in {"create", "delete"} => target[q] \in Ids
      BY DEF FlowInv, Flow, Expected
    <3> QED BY <3>1 DEF Told
  <2> HIDE DEF Operations
  <2> QED BY <2>1, <2>2 DEF Call
<1>2. CASE Returns(r) \/ GivesUp(r)
  <2>1. UNCHANGED <<server, sweeping, calls, serving>>
    BY <1>2 DEF Returns, GivesUp
  <2>2. \E c \in {"ok", "error", "abandoned"} : result' = [result EXCEPT ![r] = c]
    BY <1>2 DEF Returns, GivesUp
  <2> QED BY <2>1, <2>2
<1>3. CASE Unauthorized(r)
  BY <1>3 DEF Unauthorized
<1>4. CASE ServeHTTP(r)
  <2>1. pc'[r] \in {"answered"} \cup Operations /\ target'[r] \in 0..Logs /\ code'[r] \in {0, 404, 405}
    BY <1>4, Routed, RestAssumption DEF Reading, Logs, Blank, Operations
  <2>2. /\ \E p : pc' = [pc EXCEPT ![r] = p]
        /\ \E n : target' = [target EXCEPT ![r] = n]
        /\ \E c : code' = [code EXCEPT ![r] = c]
        /\ UNCHANGED <<server, sweeping, calls, result>>
    BY <1>4 DEF ServeHTTP
  <2> QED BY <2>1, <2>2
<1>5. CASE HandleCreate(r)
  BY <1>5, RestAssumption DEF HandleCreate, Logs
<1>6. CASE Launched(r)
  <2>1. pc[r] = "launch" => target[r] \in Ids
    BY DEF FlowInv, Flow, Counted
  <2> QED BY <1>6, <2>1 DEF Launched
<1>7. CASE HandleGet(r)
  BY <1>7 DEF HandleGet
<1>8. CASE HandleDelete(r)
  <2>1. CASE Goto(r, "delete", "stop") /\ UNCHANGED <<code, server, sweeping, calls, target, result>>
    BY <2>1
  <2>2. CASE Answer(r, "delete", 404) /\ UNCHANGED <<server, sweeping, calls, target, result>>
    BY <2>2
  <2> QED BY <1>8, <2>1, <2>2 DEF HandleDelete
<1>9. CASE Stopped(r)
  BY <1>9 DEF Stopped
<1>10. CASE WriteHeader(r)
  <2>1. UNCHANGED <<server, sweeping, calls, target, result>> /\ pc' = [pc EXCEPT ![r] = "answered"]
    BY <1>10 DEF WriteHeader
  <2>2. \E c \in {201, 204, 500} : code' = [code EXCEPT ![r] = c]
    BY <1>10 DEF WriteHeader
  <2> QED BY <2>1, <2>2
<1> QED BY <1>1, <1>2, <1>3, <1>4, <1>5, <1>6, <1>7, <1>8, <1>9, <1>10 DEF Served

LEMMA FlowStep ==
  ASSUME TypeOK, FlowInv, NEW r \in Requests, Called(r) \/ Returns(r) \/ GivesUp(r) \/ Served(r)
  PROVE  FlowInv'
<1>0. Flow(r)
  BY DEF FlowInv
<1>1. \A q \in Requests : q # r => Flow(q)'
  <2> SUFFICES ASSUME NEW q \in Requests, q # r PROVE Flow(q)'
    OBVIOUS
  <2>1. SameCall(q) /\ SameWork(q) /\ result'[q] = result[q] /\ Flow(q)
    BY Shape, FrameCalled, FrameReturned, FrameServed DEF FlowInv
  <2> QED BY <2>1, SamePath DEF Flow, SameCall, SameWork, Names
<1>11. Called(r) \/ (SameCall(r) /\ Asked(r)' = Asked(r) /\ Handler(r)' = Handler(r))
  BY Shape, FrameReturned, FrameServed, SamePath
<1> USE DEF Creating, Counted, Deleting, Stopping, Reading, Operations
<1>2. CASE Called(r)
  <2>1. Flow(r)'
    BY <1>0, <1>2 DEF Called, Call, TypeOK, Flow, Names
  <2> QED BY <1>1, <2>1 DEF FlowInv
<1>3. CASE Returns(r) \/ GivesUp(r)
  <2>1. /\ SameCall(r) /\ SameWork(r) /\ Asked(r)' = Asked(r) /\ Handler(r)' = Handler(r)
        /\ \/ result'[r] = "abandoned"
           \/ pc[r] = "answered" /\ result'[r] = IF code[r] \in Expected(op[r]) THEN "ok" ELSE "error"
    BY <1>3, Shape, FrameReturned, SamePath DEF Returns, GivesUp, TypeOK
  <2>2. Flow(r)'
    BY <1>0, <2>1 DEF Flow, SameCall, SameWork, Names
  <2> QED BY <1>1, <2>2 DEF FlowInv
<1>4. CASE Served(r)
  <2>1. /\ SameCall(r) /\ Asked(r)' = Asked(r) /\ Handler(r)' = Handler(r)
        /\ result'[r] = result[r]
    BY <1>4, Shape, FrameServed, SamePath
  <2>2. pc[r] # "answered" /\ op[r] # "none"
    BY <1>0, <1>4 DEF Served, Unauthorized, ServeHTTP, HandleCreate, Launched, HandleGet, HandleDelete,
       Stopped, WriteHeader, Goto, Answer, Flow
  <2>3. result[r] \notin {"ok", "error"} /\ code[r] = 0
    BY <1>0, <2>2 DEF Flow, Expected
  <2> USE <1>0, <2>1, <2>2, <2>3 DEF Flow, SameCall, Names
  <2>4. ASSUME Unauthorized(r) PROVE Flow(r)'
    <3>1. pc'[r] = "answered" /\ code'[r] = 401 /\ target'[r] = target[r]
      BY <2>4 DEF Unauthorized, Answer, Goto, TypeOK
    <3> QED BY <3>1
  <2>5. ASSUME ServeHTTP(r) PROVE Flow(r)'
    BY <2>5, Routed
  <2>6. ASSUME HandleCreate(r) PROVE Flow(r)'
    <3>1. /\ pc[r] = "create" /\ pc'[r] = "launch" /\ code'[r] = code[r]
          /\ target'[r] = vmSeq + 1 /\ vmSeq + 1 \in Ids
      BY <2>6, RestAssumption DEF HandleCreate, Goto, TypeOK, Ids
    <3> QED BY <3>1
  <2>7. ASSUME Launched(r) PROVE Flow(r)'
    <3>1. /\ pc[r] = "launch" /\ pc'[r] \in {"created", "launchFailed"}
          /\ code'[r] = code[r] /\ target'[r] = target[r]
      BY <2>7 DEF Launched, Goto, TypeOK
    <3> QED BY <3>1
  <2>8. ASSUME HandleGet(r) PROVE Flow(r)'
    <3>1. /\ pc[r] \in {"get", "logs"} /\ pc'[r] = "answered" /\ target'[r] = target[r]
          /\ code'[r] = IF target[r] \in vms THEN 200 ELSE 404
      BY <2>8 DEF HandleGet, Answer, Goto, TypeOK
    <3>2. target[r] \in vms => target[r] \in Ids
      BY DEF TypeOK
    <3> QED BY <3>1, <3>2
  <2>9. ASSUME HandleDelete(r) PROVE Flow(r)'
    <3>1. /\ pc[r] = "delete" /\ target'[r] = target[r]
          /\ \/ pc'[r] = "stop" /\ code'[r] = code[r] /\ target[r] \in vms
             \/ pc'[r] = "answered" /\ code'[r] = 404
      BY <2>9 DEF HandleDelete, Answer, Goto, TypeOK
    <3>2. target[r] \in vms => target[r] \in Ids
      BY DEF TypeOK
    <3> QED BY <3>1, <3>2
  <2>10. ASSUME Stopped(r) PROVE Flow(r)'
    <3>1. /\ pc[r] = "stop" /\ pc'[r] \in {"deleted", "stopFailed"}
          /\ code'[r] = code[r] /\ target'[r] = target[r]
      BY <2>10 DEF Stopped, Goto, TypeOK
    <3> QED BY <3>1
  <2>11. ASSUME WriteHeader(r) PROVE Flow(r)'
    <3>1. /\ pc'[r] = "answered" /\ target'[r] = target[r]
          /\ \/ pc[r] = "created" /\ code'[r] = 201
             \/ pc[r] = "deleted" /\ code'[r] = 204
             \/ pc[r] \in {"launchFailed", "stopFailed"} /\ code'[r] = 500
      BY <2>11 DEF WriteHeader, Answer, Goto, TypeOK
    <3> QED BY <3>1
  <2>12. Flow(r)'
    <3> HIDE DEF Flow
    <3> QED BY <1>4, <2>4, <2>5, <2>6, <2>7, <2>8, <2>9, <2>10, <2>11 DEF Served
  <2> QED BY <1>1, <2>12 DEF FlowInv
<1> QED BY <1>2, <1>3, <1>4

(* What was made or removed stays so, and no call is made twice. *)
LEMMA MadeStays ==
  ASSUME TypeOK, FlowInv, NEW r \in Requests, Called(r) \/ Returns(r) \/ GivesUp(r) \/ Served(r)
  PROVE  \A q \in Requests :
           /\ op[q] # "none" => op'[q] = op[q] /\ id'[q] = id[q] /\ token'[q] = token[q]
                                /\ gone'[q] = gone[q] /\ there'[q] = there[q]
           /\ \A n \in Ids : (Made(q, n) => Made(q, n)') /\ (Removed(q, n) => Removed(q, n)')
           /\ \A n : AskedToGo(n) => AskedToGo(n)'
<1> USE Shape DEF SameCall, SameWork
<1> SUFFICES ASSUME NEW q \in Requests
             PROVE  /\ op[q] # "none" => SameCall(q)
                    /\ \A n \in Ids : (Made(q, n) => Made(q, n)') /\ (Removed(q, n) => Removed(q, n)')
  <2>1. ASSUME NEW p \in Requests, op[p] # "none"
        PROVE  SameCall(p)
    <3>1. CASE p = r /\ Called(r)
      BY <2>1, <3>1 DEF Called, Call
    <3> QED BY <3>1, FrameCalled, FrameReturned, FrameServed
  <2>2. sweeping' = sweeping
    BY DEF Called, Call, Returns, GivesUp, Served, Unauthorized, ServeHTTP, HandleCreate, Launched, HandleGet,
           HandleDelete, Stopped, WriteHeader
  <2>3. ASSUME NEW n, AskedToGo(n) PROVE AskedToGo(n)'
    BY <2>1, <2>2, <2>3, SamePath DEF AskedToGo
  <2> QED BY <2>3
<1>0. Flow(q)
  BY DEF FlowInv
<1>00. SameCall(q) => \A n : Names(q, n)' <=> Names(q, n)
  BY SamePath
<1>1. CASE q # r
  BY <1>00, <1>1, FrameCalled, FrameReturned, FrameServed DEF Made, Removed
<1>2. CASE q = r /\ Called(r)
  <2>1. op[q] = "none"
    BY <1>2 DEF Called, Call
  <2> QED BY <2>1 DEF Made, Removed
<1>3. CASE q = r /\ (Returns(r) \/ GivesUp(r))
  BY <1>00, <1>3, FrameReturned DEF Made, Removed
<1>4. CASE q = r /\ Served(r)
  <2>1. SameCall(q) /\ \A n : Names(q, n)' <=> Names(q, n)
    BY <1>00, <1>4, FrameServed
  <2>2. pc[q] # "answered"
    BY <1>4 DEF Served, Unauthorized, ServeHTTP, HandleCreate, Launched, HandleGet, HandleDelete,
                Stopped, WriteHeader, Goto, Answer
  <2>3. ASSUME NEW n \in Ids, Made(q, n) \/ Removed(q, n)
        PROVE  WriteHeader(q) /\ target'[q] = target[q]
               /\ code'[q] = IF pc[q] = "created" THEN 201 ELSE 204
    <3>1. pc[q] = "created" \/ pc[q] = "deleted"
      BY <1>0, <2>2, <2>3 DEF Made, Removed, Flow
    <3>2. WriteHeader(q)
      BY <1>4, <3>1 DEF Served, Unauthorized, ServeHTTP, HandleCreate, Launched, HandleGet, HandleDelete,
                Stopped, Goto, Answer
    <3> QED BY <3>1, <3>2 DEF WriteHeader, Answer, Goto, Shaped
  <2>4. \A n \in Ids : Made(q, n) => pc[q] = "created"
    BY <1>0, <2>2 DEF Made, Flow
  <2>5. \A n \in Ids : Removed(q, n) => pc[q] = "deleted"
    BY <1>0, <2>2 DEF Removed, Flow
  <2> QED BY <2>1, <2>3, <2>4, <2>5 DEF Made, Removed
<1> QED BY <1>1, <1>2, <1>3, <1>4

(* A number is counted, or no create gets one. *)
LEMMA Counts ==
  ASSUME TypeOK, FlowInv, NEW r \in Requests, Called(r) \/ Returns(r) \/ GivesUp(r) \/ Served(r)
  PROVE  \/ /\ vmSeq' = vmSeq
            /\ \A q \in Requests : op'[q] = "create" =>
                 target'[q] = Blank \/ (op[q] = "create" /\ target'[q] = target[q])
         \/ /\ vmSeq' = vmSeq + 1 /\ op'[r] = op[r] /\ target'[r] = vmSeq + 1
            /\ \A q \in Requests : q # r => op'[q] = op[q] /\ target'[q] = target[q]
<1> USE Shape DEF SameCall, SameWork, server
<1>1. CASE Called(r)
  <2>1. vmSeq' = vmSeq /\ target' = target /\ pc[r] = "none"
    BY <1>1 DEF Called, Call, FlowInv, Flow
  <2>2. target[r] = Blank
    BY <2>1 DEF FlowInv, Flow
  <2> QED BY <1>1, <2>1, <2>2, FrameCalled
<1>2. CASE Returns(r) \/ GivesUp(r)
  BY <1>2, FrameReturned DEF Returns, GivesUp
<1>3. CASE ServeHTTP(r)
  BY <1>3, Routed, FrameServed DEF Served, Reading
<1>4. CASE HandleCreate(r)
  BY <1>4, FrameServed DEF Served, HandleCreate, Shaped
<1>5. CASE Unauthorized(r) \/ Launched(r) \/ HandleGet(r)
  BY <1>5, FrameServed DEF Served, Unauthorized, Launched, HandleGet
<1>6. CASE HandleDelete(r) \/ Stopped(r) \/ WriteHeader(r)
  BY <1>6, FrameServed DEF Served, HandleDelete, Stopped, WriteHeader
<1> QED BY <1>1, <1>2, <1>3, <1>4, <1>5, <1>6 DEF Served

LEMMA UniqueStep ==
  ASSUME TypeOK, FlowInv, UniqueInv, NEW r \in Requests,
         Called(r) \/ Returns(r) \/ GivesUp(r) \/ Served(r)
  PROVE  UniqueInv'
<1>1. vmSeq \in Nat /\ \A q \in Requests : target[q] \in Nat
  BY RestAssumption DEF TypeOK
<1>2. CASE vmSeq' = vmSeq /\ \A q \in Requests : op'[q] = "create" =>
                 target'[q] = Blank \/ (op[q] = "create" /\ target'[q] = target[q])
  BY <1>1, <1>2 DEF UniqueInv, Blank
<1>3. CASE /\ vmSeq' = vmSeq + 1 /\ op'[r] = op[r] /\ target'[r] = vmSeq + 1
           /\ \A q \in Requests : q # r => op'[q] = op[q] /\ target'[q] = target[q]
  BY <1>1, <1>3 DEF UniqueInv, Blank
<1> QED BY <1>2, <1>3, Counts

LEMMA MadeStep ==
  ASSUME TypeOK, FlowInv, UniqueInv, MadeInv, NEW r \in Requests,
         Called(r) \/ Returns(r) \/ GivesUp(r) \/ Served(r)
  PROVE  MadeInv'
<1> USE Shape DEF SameCall, SameWork
<1>0. Flow(r) /\ \A q \in Requests, n \in Ids : (Made(q, n) => Made(q, n)') /\ (Removed(q, n) => Removed(q, n)')
  BY MadeStays DEF FlowInv
<1>1. vms \subseteq Ids /\ vms' \subseteq Ids
  BY TypeStep DEF TypeOK
<1>2. \/ vms' = vms
      \/ Launched(r) /\ vms' = vms \cup {target[r]} /\ pc[r] = "launch"
         /\ \A n \in vms' : n = target[r] => Made(r, n)'
      \/ Stopped(r) /\ vms' = vms \ {target[r]} /\ AskedToGo(target[r])
  <2>1. CASE Called(r)
    BY <2>1 DEF Called, Call, server
  <2>2. CASE Launched(r)
    <3>1. CASE vms' = vms \cup {target[r]} /\ Goto(r, "launch", "created")
      BY <1>0, <2>2, <3>1 DEF Launched, Goto, Made, Flow, Counted, Creating, calls, Shaped
    <3> QED BY <2>2, <3>1 DEF Launched
  <2>3. CASE Stopped(r)
    <3>1. CASE vms' = vms \ {target[r]} /\ Goto(r, "stop", "deleted")
      BY <1>0, <2>3, <3>1 DEF Stopped, Goto, Flow, Deleting, AskedToGo
    <3> QED BY <2>3, <3>1 DEF Stopped
  <2> QED BY <2>1, <2>2, <2>3 DEF Served, Returns, GivesUp, Unauthorized, ServeHTTP, HandleCreate,
             HandleGet, HandleDelete, WriteHeader, server
<1>3. ASSUME NEW n \in vms'
      PROVE  \E q \in Requests : Made(q, n)'
  <2>1. CASE n \in vms
    <3>1. PICK q \in Requests : Made(q, n)
      BY <2>1 DEF MadeInv
    <3> QED BY <1>0, <1>1, <2>1, <3>1
  <2>2. CASE n \notin vms
    BY <1>2, <2>2
  <2> QED BY <2>1, <2>2
<1>4. ASSUME NEW q \in Requests, pc'[q] \in Stopping \/ code'[q] = 204
      PROVE  \/ (pc[q] \in Stopping \/ code[q] = 204) /\ target'[q] = target[q]
             \/ HandleDelete(r) /\ q = r /\ target[r] \in vms /\ target'[q] = target[q]
  <2>1. CASE q # r \/ Returns(r) \/ GivesUp(r)
    BY <1>4, <2>1, FrameCalled, FrameReturned, FrameServed
  <2>2. CASE Called(q)
    BY <1>4, <2>2 DEF Called, Call, Shaped, Stopping, FlowInv, Flow
  <2>3. CASE q = r /\ Served(r)
    <3>1. CASE ServeHTTP(r)
      BY <1>4, <2>3, <3>1, Routed DEF Stopping, Reading
    <3>2. CASE Unauthorized(r) \/ HandleCreate(r) \/ Launched(r) \/ HandleGet(r)
      BY <1>0, <1>4, <2>3, <3>2 DEF Unauthorized, HandleCreate, Launched, HandleGet, Goto, Answer, Shaped,
         Stopping, Flow
    <3>3. CASE HandleDelete(r)
      BY <1>0, <1>4, <2>3, <3>3 DEF HandleDelete, Goto, Answer, Shaped, Stopping, Flow
    <3>4. CASE Stopped(r) \/ WriteHeader(r)
      BY <1>0, <1>4, <2>3, <3>4 DEF Stopped, WriteHeader, Goto, Answer, Shaped, Stopping, Flow
    <3> QED BY <2>3, <3>1, <3>2, <3>3, <3>4 DEF Served
  <2> QED BY <2>1, <2>2, <2>3
<1>5. ASSUME NEW q \in Requests, pc'[q] \in Stopping \/ code'[q] = 204
      PROVE  \E p \in Requests : Made(p, target[q])'
  <2>1. PICK p \in Requests : Made(p, target[q]) /\ target'[q] = target[q]
    BY <1>4, <1>5 DEF MadeInv
  <2>2. target[q] \in Ids
    BY <2>1 DEF Made
  <2>3. PICK n \in Ids : n = target[q] /\ n = target'[q] /\ Made(p, n)
    BY <2>1, <2>2
  <2>4. Made(p, n)'
    BY <1>0, <2>3
  <2> QED BY <2>3, <2>4 DEF Made
<1>6. ASSUME NEW q \in Requests, NEW n \in Ids, Removed(q, n)'
      PROVE  n \notin vms'
  <2>1. CASE Removed(q, n)
    <3>1. PICK p \in Requests : Made(p, n)
      BY <2>1 DEF Removed, MadeInv, Stopping
    <3>2. pc[r] = "launch" => ~Made(r, n)
      BY <1>0 DEF Made, Flow
    <3>3. pc[r] = "launch" /\ target[r] = n => p = r
      BY <1>0, <3>1, Numbers DEF UniqueInv, Made, Flow, Creating, Counted
    <3>4. n \notin vms
      BY <2>1 DEF MadeInv
    <3> QED BY <1>2, <3>1, <3>2, <3>3, <3>4
  <2>2. CASE ~Removed(q, n)
    <3>1. q = r /\ Served(r)
      <4>1. CASE q # r
        BY <1>6, <2>2, <4>1, FrameCalled, FrameReturned, FrameServed, SamePath DEF Removed
      <4>2. CASE Called(r)
        BY <1>0, <1>6, <2>2, <4>1, <4>2 DEF Called, Call, Removed, Flow, Shaped
      <4>3. CASE Returns(r) \/ GivesUp(r)
        BY <1>6, <2>2, <4>3, FrameReturned, SamePath DEF Removed
      <4> QED BY <4>1, <4>2, <4>3
    <3>2. CASE Stopped(r)
      BY <1>0, <1>6, <3>1, <3>2 DEF Stopped, Goto, Shaped, Removed, Flow
    <3>3. CASE ServeHTTP(r)
      BY <1>6, <3>1, <3>3, Routed DEF Removed, Reading
    <3>4. CASE Unauthorized(r) \/ HandleCreate(r) \/ Launched(r)
      BY <1>0, <1>6, <3>1, <3>4 DEF Unauthorized, HandleCreate, Launched, Goto, Answer, Shaped, Removed, Flow
    <3>5. CASE HandleGet(r) \/ HandleDelete(r)
      BY <1>0, <1>6, <3>1, <3>5 DEF HandleGet, HandleDelete, Goto, Answer, Shaped, Removed, Flow
    <3>6. CASE WriteHeader(r)
      BY <1>0, <1>6, <2>2, <3>1, <3>6, FrameServed, SamePath DEF WriteHeader, Goto, Answer, Shaped, Removed, Flow
    <3> QED BY <3>1, <3>2, <3>3, <3>4, <3>5, <3>6 DEF Served
  <2> QED BY <2>1, <2>2
<1>7. ASSUME NEW q \in Requests, NEW n \in Ids, Made(q, n)'
      PROVE  n \in vms' \/ AskedToGo(n)'
  <2>1. CASE Made(q, n)
    <3>1. CASE AskedToGo(n)
      BY <3>1, MadeStays
    <3>2. CASE n \in vms
      BY <1>2, <3>2, MadeStays
    <3> QED BY <2>1, <3>1, <3>2 DEF MadeInv
  <2>2. CASE ~Made(q, n)
    <3>1. q = r /\ Served(r)
      <4>1. CASE q # r
        BY <1>7, <2>2, <4>1, FrameCalled, FrameReturned, FrameServed DEF Made
      <4>2. CASE Called(r)
        BY <1>0, <1>7, <2>2, <4>1, <4>2 DEF Called, Call, Made, Flow, Shaped
      <4>3. CASE Returns(r) \/ GivesUp(r)
        BY <1>7, <2>2, <4>3, FrameReturned DEF Made
      <4> QED BY <4>1, <4>2, <4>3
    <3>2. CASE Launched(r)
      BY <1>0, <1>7, <3>1, <3>2 DEF Launched, Goto, Shaped, Made, Flow
    <3>3. CASE ServeHTTP(r)
      BY <1>7, <3>1, <3>3, Routed DEF Made, Reading
    <3>4. CASE Unauthorized(r) \/ HandleCreate(r)
      BY <1>0, <1>7, <3>1, <3>4 DEF Unauthorized, HandleCreate, Goto, Answer, Shaped, Made, Flow
    <3>5. CASE HandleGet(r) \/ HandleDelete(r) \/ Stopped(r)
      BY <1>0, <1>7, <3>1, <3>5 DEF HandleGet, HandleDelete, Stopped, Goto, Answer, Shaped, Made, Flow
    <3>6. CASE WriteHeader(r)
      BY <1>0, <1>7, <2>2, <3>1, <3>6, FrameServed DEF WriteHeader, Goto, Answer, Shaped, Made, Flow
    <3> QED BY <3>1, <3>2, <3>3, <3>4, <3>5, <3>6 DEF Served
  <2> QED BY <2>1, <2>2
<1> QED BY <1>3, <1>5, <1>6, <1>7 DEF MadeInv

LEMMA KnownStep ==
  ASSUME TypeOK, FlowInv, MadeInv, KnownInv, NEW r \in Requests,
         Called(r) \/ Returns(r) \/ GivesUp(r) \/ Served(r)
  PROVE  KnownInv'
<1> USE Shape DEF SameCall, SameWork
<1> SUFFICES ASSUME NEW q \in Requests
             PROVE  /\ \A n \in gone'[q]  : \E p \in Requests : Removed(p, n)'
                    /\ \A n \in there'[q] : \E p \in Requests : Made(p, n)'
                    /\ pc'[q] \in Stopping \/ code'[q] \in {200, 204} => target'[q] \notin gone'[q]
  BY DEF KnownInv
<1>0. Flow(q) /\ \A p \in Requests, n \in Ids : (Made(p, n) => Made(p, n)') /\ (Removed(p, n) => Removed(p, n)')
  BY MadeStays DEF FlowInv
<1>1. gone[q] \subseteq Ids /\ there[q] \subseteq Ids
  BY DEF TypeOK
<1>2. CASE q = r /\ Called(r)
  <2>1. gone'[q] = Told("delete") /\ there'[q] = Told("create") /\ pc'[q] = "sent" /\ code'[q] = 0
    BY <1>0, <1>2 DEF Called, Call, Shaped, Flow
  <2>2. \A n \in Told("delete") : \E p \in Requests : Removed(p, n) /\ n \in Ids
    BY DEF Told, FlowInv, Flow, Expected, Removed, Reading
  <2>3. \A n \in Told("create") : \E p \in Requests : Made(p, n) /\ n \in Ids
    BY DEF Told, FlowInv, Flow, Expected, Made, Reading
  <2> QED BY <1>0, <2>1, <2>2, <2>3 DEF Stopping
<1>3. CASE ~(q = r /\ Called(r))
  <2>1. gone'[q] = gone[q] /\ there'[q] = there[q]
    BY <1>3, FrameCalled, FrameReturned, FrameServed
  <2>2. \A n \in gone'[q]  : \E p \in Requests : Removed(p, n)'
    BY <1>0, <1>1, <2>1 DEF KnownInv
  <2>3. \A n \in there'[q] : \E p \in Requests : Made(p, n)'
    BY <1>0, <1>1, <2>1 DEF KnownInv
  <2>4. ASSUME pc'[q] \in Stopping \/ code'[q] \in {200, 204}
        PROVE  /\ target'[q] = target[q]
               /\ (pc[q] \in Stopping \/ code[q] \in {200, 204}) \/ target[q] \in vms
    <3>1. CASE q # r \/ Returns(r) \/ GivesUp(r)
      BY <2>4, <3>1, FrameCalled, FrameReturned, FrameServed
    <3>2. CASE q = r /\ ServeHTTP(r)
      BY <2>4, <3>2, Routed DEF Stopping, Reading
    <3>3. CASE q = r /\ (Unauthorized(r) \/ HandleCreate(r) \/ Launched(r))
      BY <1>0, <2>4, <3>3 DEF Unauthorized, HandleCreate, Launched, Goto, Answer, Shaped, Stopping, Flow
    <3>4. CASE q = r /\ (HandleGet(r) \/ HandleDelete(r))
      BY <1>0, <2>4, <3>4 DEF HandleGet, HandleDelete, Goto, Answer, Shaped, Stopping, Flow
    <3>5. CASE q = r /\ (Stopped(r) \/ WriteHeader(r))
      BY <1>0, <2>4, <3>5 DEF Stopped, WriteHeader, Goto, Answer, Shaped, Stopping, Flow
    <3> QED BY <1>3, <3>1, <3>2, <3>3, <3>4, <3>5 DEF Served
  <2>5. target[q] \in vms => target[q] \notin gone[q]
    BY <1>1 DEF KnownInv, MadeInv
  <2> QED BY <2>1, <2>2, <2>3, <2>4, <2>5 DEF KnownInv
<1> QED BY <1>2, <1>3

LEMMA FoundStep ==
  ASSUME TypeOK, FlowInv, MadeInv, KnownInv, FoundInv, NEW r \in Requests,
         Called(r) \/ Returns(r) \/ GivesUp(r) \/ Served(r)
  PROVE  FoundInv'
<1> USE Shape DEF SameCall, SameWork
<1> SUFFICES ASSUME NEW q \in Requests, op'[q] \in Reading, NEW n \in there'[q],
                    Names(q, n)' \/ NamesLogs(q, n)', token'[q], ~AskedToGo(n)'
             PROVE  code'[q] \in {0, 200}
  BY DEF FoundInv
<1>0. Flow(q)
  BY DEF FlowInv
<1>1. CASE q = r /\ Called(r)
  BY <1>0, <1>1 DEF Called, Call, Shaped, Flow
<1>2. CASE ~(q = r /\ Called(r))
  <2>1. SameCall(q)
    BY <1>2, FrameCalled, FrameReturned, FrameServed
  <2>2. ~AskedToGo(n) /\ (Names(q, n) \/ NamesLogs(q, n))
    BY <2>1, MadeStays, SamePath
  <2>3. code[q] \in {0, 200}
    BY <2>1, <2>2 DEF FoundInv
  <2>4. CASE q # r \/ Returns(r) \/ GivesUp(r)
    BY <2>3, <2>4, FrameCalled, FrameReturned, FrameServed
  <2>5. CASE q = r /\ ServeHTTP(r)
    <3>1. id[q] \in IdArgs /\ op[q] \in {"get", "delete", "logs"}
      BY <1>0, <2>1 DEF Flow, Reading
    <3>2. Handler(q) \in Reading
      BY <2>1, <2>2, <3>1, PathNotEmpty, RouteMeans DEF Handler, Asked, Names, NamesLogs
    <3> QED BY <2>1, <2>5, <3>2, Routed DEF Reading
  <2>6. CASE q = r /\ (Unauthorized(r) \/ HandleCreate(r) \/ Launched(r))
    BY <1>0, <2>1, <2>3, <2>6 DEF Unauthorized, HandleCreate, Launched, Goto, Answer, Shaped, Flow
  <2>7. CASE q = r /\ HandleGet(r)
    <3>1. target[r] = n
      BY <1>0, <2>1, <2>2, <2>7 DEF HandleGet, Goto, Answer, Flow, Reading, Names, NamesLogs
    <3>2. n \in vms
      <4>1. PICK p \in Requests : Made(p, n)
        BY <2>1 DEF KnownInv
      <4>2. n \in Ids
        BY <4>1 DEF Made
      <4> QED BY <2>2, <4>1, <4>2 DEF MadeInv
    <3> QED BY <2>7, <3>1, <3>2 DEF HandleGet, Answer, Shaped
  <2>8. CASE q = r /\ (HandleDelete(r) \/ Stopped(r) \/ WriteHeader(r))
    BY <1>0, <2>1, <2>3, <2>8 DEF HandleDelete, Stopped, WriteHeader, Goto, Answer, Shaped, Flow, Deleting,
       Creating, Reading
  <2> QED BY <1>2, <2>4, <2>5, <2>6, <2>7, <2>8 DEF Served
<1> QED BY <1>1, <1>2

(* StopAll takes from the registry what it was asked to, and is nothing to *)
(* the requests.                                                           *)
LEMMA SweepStep ==
  ASSUME RestInv, UNCHANGED <<vmSeq, calls, serving, result>>,
         vms' \subseteq vms, sweeping' \in BOOLEAN, sweeping => sweeping',
         vms' = vms \/ sweeping'
  PROVE  RestInv'
<1> USE DEF calls, serving
<1>1. \A q \in Requests : Asked(q)' = Asked(q) /\ Handler(q)' = Handler(q)
  BY DEF Asked, Handler
<1>2. \A q \in Requests : \A n : (Names(q, n)' <=> Names(q, n)) /\ (NamesLogs(q, n)' <=> NamesLogs(q, n))
  BY <1>1 DEF Names, NamesLogs
<1>3. \A q \in Requests : \A n : (Made(q, n)' <=> Made(q, n)) /\ (Removed(q, n)' <=> Removed(q, n))
  BY <1>2 DEF Made, Removed
<1>4. \A n : AskedToGo(n) => AskedToGo(n)'
  BY <1>2 DEF AskedToGo
<1>5. sweeping' => \A n : AskedToGo(n)'
  BY DEF AskedToGo
<1>6. TypeOK'
  BY DEF RestInv, TypeOK
<1>7. FlowInv'
  BY <1>1 DEF RestInv, FlowInv, Flow, Names
<1>8. UniqueInv'
  BY DEF RestInv, UniqueInv
<1>9. MadeInv'
  <2>1. \A n \in vms' : \E r \in Requests : Made(r, n)'
    BY <1>3 DEF RestInv, MadeInv
  <2>2. ASSUME NEW q \in Requests, pc'[q] \in Stopping \/ code'[q] = 204
        PROVE  \E r \in Requests : Made(r, target[q])'
    <3>1. PICK r \in Requests : Made(r, target[q])
      BY <2>2 DEF RestInv, MadeInv
    <3> QED BY <3>1 DEF Made
  <2>3. \A q \in Requests, n \in Ids : Removed(q, n)' => n \notin vms'
    BY <1>3 DEF RestInv, MadeInv
  <2>4. \A q \in Requests, n \in Ids : Made(q, n)' => n \in vms' \/ AskedToGo(n)'
    BY <1>3, <1>4, <1>5 DEF RestInv, MadeInv
  <2> QED BY <2>1, <2>2, <2>3, <2>4 DEF MadeInv
<1>10. KnownInv'
  BY <1>3 DEF RestInv, KnownInv
<1>11. FoundInv'
  BY <1>2, <1>4 DEF RestInv, FoundInv
<1> QED BY <1>6, <1>7, <1>8, <1>9, <1>10, <1>11 DEF RestInv

-----------------------------------------------------------------------------
(***************************************************************************)
(* The theorems                                                            *)
(***************************************************************************)
LEMMA RestInitially == Init => RestInv
<1> SUFFICES ASSUME Init PROVE RestInv
  OBVIOUS
<1>1. TypeOK
  <2>1. 0 \in 0..MaxSeq /\ Blank \in 0..Logs
    BY RestAssumption DEF Blank, Logs
  <2> QED BY <2>1 DEF Init, TypeOK, Operations
<1>2. FlowInv
  <2>1. ASSUME NEW q \in Requests PROVE Flow(q)
    <3>1. /\ op[q] = "none" /\ pc[q] = "none" /\ target[q] = Blank /\ code[q] = 0
          /\ result[q] = "none"
      BY DEF Init
    <3> QED BY <3>1 DEF Flow, Creating, Counted, Deleting, Stopping, Reading
  <2> QED BY <2>1, Zenon DEF FlowInv
<1>3. UniqueInv /\ MadeInv /\ KnownInv /\ FoundInv
  BY DEF Init, UniqueInv, MadeInv, KnownInv, FoundInv, Made, Removed, Stopping, Reading
<1> QED BY <1>1, <1>2, <1>3 DEF RestInv

LEMMA RestInductive == RestInv /\ [Next]_vars => RestInv'
<1> SUFFICES ASSUME RestInv, [Next]_vars PROVE RestInv'
  OBVIOUS
<1>1. CASE UNCHANGED vars
  <2>1. sweeping' = sweeping /\ vms' = vms /\ UNCHANGED <<vmSeq, calls, serving, result>>
    BY <1>1 DEF vars, server
  <2>2. sweeping \in BOOLEAN
    BY DEF RestInv, TypeOK
  <2> QED BY <2>1, <2>2, SweepStep
<1>2. ASSUME NEW r \in Requests, Called(r) \/ Returns(r) \/ GivesUp(r) \/ Served(r)
      PROVE  RestInv'
  BY <1>2, TypeStep, FlowStep, UniqueStep, MadeStep, KnownStep, FoundStep DEF RestInv
<1>3. CASE StopAll
  <2>1. vms' \subseteq vms /\ sweeping'
    BY <1>3 DEF StopAll, server
  <2> QED BY <1>3, <2>1, SweepStep DEF RestInv, StopAll, server
<1>4. ASSUME NEW n \in Ids, Swept(n)
      PROVE  RestInv'
  <2>1. vms' \subseteq vms /\ sweeping' /\ sweeping
    BY <1>4 DEF Swept
  <2> QED BY <1>4, <2>1, SweepStep DEF RestInv, Swept
<1> QED BY <1>1, <1>2, <1>3, <1>4, StepOfOne

THEOREM RestInvariant == Spec => []RestInv
BY RestInitially, RestInductive, PTL DEF Spec

(* Requests, answers and the registry are what they should be: no number   *)
(* beyond the counter is ever served, whoever calls.                       *)
THEOREM RestTypeCorrect == Spec => []TypeOK
<1>1. RestInv => TypeOK
  BY DEF RestInv
<1> QED BY <1>1, RestInvariant, PTL

(* What a caller was told by handleDeleteInstance or handleCreateInstance  *)
(* holds for whoever calls later.                                          *)
THEOREM RestLinear == Spec => []Linear
<1>1. RestInv => Linear
  <2> SUFFICES ASSUME RestInv, NEW r \in Requests, op[r] \in {"get", "delete", "logs"}
               PROVE  /\ result[r] = "ok" => target[r] \notin gone[r]
                      /\ \A n \in there[r] :
                           /\ Names(r, n) \/ NamesLogs(r, n)
                           /\ op[r] # "delete" /\ token[r] /\ ~AskedToGo(n)
                           => code[r] \in {0, 200}
    BY DEF Linear
  <2>1. result[r] = "ok" => code[r] \in {200, 204}
    BY DEF RestInv, FlowInv, Flow, Expected
  <2>2. code[r] \in {200, 204} => target[r] \notin gone[r]
    BY DEF RestInv, KnownInv
  <2>3. op[r] # "delete" => op[r] \in Reading
    BY DEF Reading
  <2> QED BY <2>1, <2>2, <2>3 DEF RestInv, FoundInv
<1> QED BY <1>1, RestInvariant, PTL

(* An instance in the registry is one that its creator was told of, or     *)
(* will be unless it gave up: handleCreateInstance.                        *)
THEOREM RestCreatorKnows == Spec => []CreatorKnows
<1>1. RestInv => CreatorKnows
  <2> SUFFICES ASSUME RestInv PROVE CreatorKnows
    OBVIOUS
  <2>1. ASSUME NEW n \in vms
        PROVE  \E r \in Requests : op[r] = "create" /\ target[r] = n /\ result[r] # "error"
    <3>1. PICK r \in Requests : Made(r, n)
      BY <2>1 DEF RestInv, MadeInv
    <3>2. Flow(r)
      BY DEF RestInv, FlowInv
    <3> QED BY <3>1, <3>2 DEF Made, Flow, Expected
  <2>2. ASSUME NEW r \in Requests, op[r] = "create", result[r] = "ok"
        PROVE  target[r] \in vms \/ AskedToGo(target[r])
    <3>1. code[r] = 201 /\ target[r] \in Ids
      BY <2>2 DEF RestInv, FlowInv, Flow, Expected, Reading
    <3> QED BY <2>2, <3>1 DEF RestInv, MadeInv, Made
  <2> QED BY <2>1, <2>2 DEF CreatorKnows
<1> QED BY <1>1, RestInvariant, PTL

(* An operation of the adapter that succeeds was served by its handler,    *)
(* whatever the id; an id with a separator can make ServeHTTP take one of  *)
(* the two that read for the other, and no more.                           *)
THEOREM RestServedAsMeant == Spec => []ServedAsMeant
<1>1. RestInv => ServedAsMeant
  <2> SUFFICES ASSUME RestInv, NEW r \in Requests, result[r] = "ok"
               PROVE  \/ Handler(r) = op[r]
                      \/ id[r].seps # <<>> /\ {op[r], Handler(r)} = {"get", "logs"}
    BY DEF ServedAsMeant
  <2>1. code[r] \in {200, 201, 204} /\ op[r] # "none" /\ Flow(r)
    BY DEF RestInv, FlowInv, Flow, Expected
  <2>2. CASE op[r] = "create"
    BY <2>1, <2>2, CreateRoute DEF Handler, Asked, Method
  <2>3. CASE op[r] # "create"
    <3>1. op[r] \in {"get", "delete", "logs"} /\ id[r] \in IdArgs
      BY <2>1, <2>3 DEF RestInv, TypeOK, Operations, Flow
    <3>2. Handler(r) # "refused"
      BY <2>1, <2>3 DEF Flow
    <3>3. /\ Handler(r) \in {"get", "delete", "logs"}
          /\ Handler(r) = "delete" => op[r] = "delete"
          /\ Handler(r) \in Reading => op[r] \in Reading
          /\ Handler(r) = "get" => IsInstance(Asked(r))
          /\ Handler(r) = "logs" => IsLogs(Asked(r))
      BY <3>1, <3>2, PathNotEmpty, RouteMeans DEF Handler, Asked
    <3>4. Handler(r) # op[r] => {op[r], Handler(r)} = {"get", "logs"}
      BY <3>1, <3>3 DEF Reading
    <3>5. Handler(r) # op[r] => id[r].seps # <<>>
      BY <3>1, <3>3, PlainPath DEF Reading, Asked
    <3> QED BY <3>4, <3>5
  <2> QED BY <2>2, <2>3
<1> QED BY <1>1, RestInvariant, PTL

(* The registry changes only as it was asked to: vms.Store by the one      *)
(* authorized create that was given the number, vms.Delete by StopAll or   *)
(* by an authorized delete whose path names the instance.                  *)
THEOREM RestChangesAsAsked == Spec => ChangesAsAsked
<1>1. RestInv /\ [Next]_vars =>
        [ /\ \A n \in vms' \ vms : \E r \in Requests :
               token[r] /\ op[r] = "create" /\ target[r] = n
               /\ \A q \in Requests \ {r} : op[q] = "create" => target[q] # n
          /\ \A n \in vms \ vms' :
               sweeping \/ \E r \in Requests : token[r] /\ op[r] = "delete" /\ Names(r, n) ]_vars
  <2> SUFFICES ASSUME RestInv, [Next]_vars
               PROVE  /\ \A n \in vms' \ vms : \E p \in Requests :
                           token[p] /\ op[p] = "create" /\ target[p] = n
                           /\ \A q \in Requests \ {p} : op[q] = "create" => target[q] # n
                      /\ \A n \in vms \ vms' :
                           sweeping \/ \E p \in Requests : token[p] /\ op[p] = "delete" /\ Names(p, n)
    OBVIOUS
  <2>1. ASSUME NEW r \in Requests, Launched(r)
        PROVE  /\ vms \subseteq vms'
               /\ \A n \in vms' \ vms : token[r] /\ op[r] = "create" /\ target[r] = n
                    /\ \A q \in Requests \ {r} : op[q] = "create" => target[q] # n
    <3>1. vms' = vms \cup {target[r]} \/ vms' = vms
      BY <2>1 DEF Launched
    <3>2. token[r] /\ op[r] = "create" /\ target[r] # Blank
      BY <2>1, Numbers DEF Launched, Goto, RestInv, FlowInv, Flow, Creating, Counted
    <3> QED BY <3>1, <3>2 DEF RestInv, UniqueInv
  <2>2. ASSUME NEW r \in Requests, Stopped(r)
        PROVE  /\ vms' \subseteq vms
               /\ \A n \in vms \ vms' : token[r] /\ op[r] = "delete" /\ Names(r, n)
    <3>1. vms' = vms \ {target[r]} \/ vms' = vms
      BY <2>2 DEF Stopped
    <3>2. token[r] /\ op[r] = "delete" /\ Names(r, target[r])
      BY <2>2 DEF Stopped, Goto, RestInv, FlowInv, Flow, Deleting
    <3> QED BY <3>1, <3>2
  <2>3. CASE \E r \in Requests : Launched(r) \/ Stopped(r)
    BY <2>1, <2>2, <2>3
  <2>4. CASE \E n \in Ids : Swept(n)
    BY <2>4 DEF Swept
  <2>5. CASE ~(\E r \in Requests : Launched(r) \/ Stopped(r)) /\ ~(\E n \in Ids : Swept(n))
    <3>1. vms' = vms
      <4>1. ASSUME NEW r \in Requests, Called(r) \/ Returns(r) \/ GivesUp(r) \/ Served(r)
            PROVE  vms' = vms
        BY <2>5, <4>1 DEF Called, Call, Returns, GivesUp, Served, Unauthorized, ServeHTTP, HandleCreate,
           HandleGet, HandleDelete, WriteHeader, server
      <4>2. UNCHANGED vars \/ StopAll => vms' = vms
        BY DEF vars, server, StopAll
      <4> QED BY <2>5, <4>1, <4>2, StepOfOne
    <3> QED BY <3>1
  <2> QED BY <2>3, <2>4, <2>5
<1> QED BY <1>1, RestInvariant, PTL DEF Spec, ChangesAsAsked

=============================================================================
