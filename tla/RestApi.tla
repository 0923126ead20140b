------------------------------- MODULE RestApi -------------------------------
(***************************************************************************)
(* The REST API between the sandbox client and the daemon: the adapter's   *)
(* four operations, ServeHTTP with its token and its routes, the handlers, *)
(* and the codes by which the adapter tells success from failure. The work *)
(* of a launch and of a Stop is one step here; it is what LaunchVM and     *)
(* StopVM are about.                                                       *)
(*                                                                         *)
(* A request r is one call of the adapter. Its caller may give up at any   *)
(* time, while the server still works on it.                               *)
(***************************************************************************)
EXTENDS Naturals, Sequences

CONSTANTS
  Requests,  \* calls of the adapter
  MaxSeq,    \* bound on vmSeq
  IdArgs     \* what the callers give for an id

(* Segments of a path after "/v1/instances": n is "inst-n", Escaped(n) one *)
(* of its spellings with a percent sign, such as "inst%2D1".               *)
Ids   == 1..MaxSeq
Blank == 0
Logs  == MaxSeq + 1
Escaped(n) == Logs + n
Segments == 0..Escaped(MaxSeq)

(* A text is segments with separators between them: "inst-1?x" is inst-1   *)
(* and another, separated by "?". An id may be any text that url.Parse     *)
(* takes; of another, nothing is sent.                                     *)
Separators == {"/", "%2F", "?", "#"}
Texts == {t \in [segs : Seq(Segments), seps : Seq(Separators)] : Len(t.segs) = Len(t.seps) + 1}
NoId  == [segs |-> <<>>, seps |-> <<>>]

ASSUME RestAssumption == MaxSeq \in Nat \ {0} /\ IdArgs \subseteq Texts

Operations == {"create", "get", "delete", "logs"}

Method(o) == CASE o = "create" -> "POST" [] o = "delete" -> "DELETE" [] OTHER -> "GET"

(* The adapter formats the id into the URL as it is: GetInstanceLogs        *)
(* appends "/logs" to it, the others nothing.                              *)
Url(o, i) ==
  IF o = "logs" THEN [segs |-> Append(i.segs, Logs), seps |-> Append(i.seps, "/")] ELSE i

(* What the server has of a URL: its path ends at the first "?" or "#", is *)
(* decoded, and split at each slash, the decoded ones with the others.     *)
Kept(t) == {k \in DOMAIN t.segs : \A j \in 1..(k - 1) : t.seps[j] \notin {"?", "#"}}
Decode(s) == IF s > Logs THEN s - Logs ELSE s
Received(t) == [k \in Kept(t) |-> Decode(t.segs[k])]

(* <<>> is the path "/v1/instances". *)
Path(o, i) == IF o = "create" THEN <<>> ELSE Received(Url(o, i))

IsInstance(p) == Len(p) = 1 /\ p[1] # Blank
IsLogs(p) == Len(p) = 2 /\ p[1] # Blank /\ p[2] = Logs

(* Mutant: whatever is below an instance is the instance. *)
RouteByPrefix(m, p) ==
  CASE p = <<>> /\ m = "POST" -> "create"
    [] p # <<>> /\ p[1] # Blank /\ m = "GET" -> "get"
    [] p # <<>> /\ p[1] # Blank /\ m = "DELETE" -> "delete"
    [] OTHER -> "refused"

(* "refused" is 405 for a path that is known, and 404 for another. *)
Route(m, p) ==
  CASE p = <<>> /\ m = "POST" -> "create"
    [] IsInstance(p) /\ m = "GET" -> "get"
    [] IsInstance(p) /\ m = "DELETE" -> "delete"
    [] IsLogs(p) /\ m = "GET" -> "logs"
    [] OTHER -> "refused"

Refusal(p) == IF p = <<>> \/ IsInstance(p) \/ IsLogs(p) THEN 405 ELSE 404

VARIABLES
  vmSeq,    \* Server.vmSeq
  vms,      \* keys of Server.vms
  sweeping, \* StopAll has been called
  op,       \* the operation called, or "none"
  id,       \* its id argument
  token,    \* the adapter has the server's token, or the server asks for none
  pc,       \* where the server is with request r
  target,   \* the instance its handler works on
  code,     \* the status of the response
  result,   \* what the caller got
  gone,     \* ids whose deletion had been reported when r was called
  there     \* ids whose creation had been reported when r was called

server   == <<vmSeq, vms>>
calls    == <<op, id, token, gone, there>>
serving  == <<pc, target, code>>
vars     == <<server, sweeping, calls, serving, result>>

Init ==
  /\ vmSeq = 0 /\ vms = {} /\ sweeping = FALSE
  /\ op = [r \in Requests |-> "none"] /\ id = [r \in Requests |-> NoId]
  /\ token = [r \in Requests |-> FALSE]
  /\ gone = [r \in Requests |-> {}] /\ there = [r \in Requests |-> {}]
  /\ pc = [r \in Requests |-> "none"] /\ target = [r \in Requests |-> Blank]
  /\ code = [r \in Requests |-> 0] /\ result = [r \in Requests |-> "none"]

(***************************************************************************)
(* The adapter                                                             *)
(***************************************************************************)

(* The instances that operation o reported to some caller. *)
Told(o) == {target[r] : r \in {q \in Requests : op[q] = o /\ result[q] = "ok"}}

Call(r, o, i, t) ==
  /\ op[r] = "none"
  /\ op' = [op EXCEPT ![r] = o] /\ id' = [id EXCEPT ![r] = i]
  /\ token' = [token EXCEPT ![r] = t]
  /\ gone' = [gone EXCEPT ![r] = Told("delete")]
  /\ there' = [there EXCEPT ![r] = Told("create")]
  /\ pc' = [pc EXCEPT ![r] = "sent"] /\ result' = [result EXCEPT ![r] = "pending"]
  /\ UNCHANGED <<server, sweeping, target, code>>

CreateInstance(r, t) == Call(r, "create", NoId, t)
GetInstance(r, i, t) == Call(r, "get", i, t)
DeleteInstance(r, i, t) == Call(r, "delete", i, t)
GetInstanceLogs(r, i, t) == Call(r, "logs", i, t)

(* The codes each operation takes for success. *)
Expected(o) ==
  CASE o = "create" -> {200, 201} [] o = "delete" -> {200, 204} [] OTHER -> {200}

Returns(r) ==
  /\ pc[r] = "answered" /\ result[r] = "pending"
  /\ result' = [result EXCEPT ![r] = IF code[r] \in Expected(op[r]) THEN "ok" ELSE "error"]
  /\ UNCHANGED <<server, sweeping, calls, serving>>

(* The caller's context ends, or the connection is lost. *)
GivesUp(r) ==
  /\ result[r] = "pending" /\ result' = [result EXCEPT ![r] = "abandoned"]
  /\ UNCHANGED <<server, sweeping, calls, serving>>

(***************************************************************************)
(* The server                                                              *)
(***************************************************************************)
Goto(r, from, to) == pc[r] = from /\ pc' = [pc EXCEPT ![r] = to]
Answer(r, from, c) == Goto(r, from, "answered") /\ code' = [code EXCEPT ![r] = c]

Asked(r) == Path(op[r], id[r])
Handler(r) == Route(Method(op[r]), Asked(r))

(* Mutant: the 401 is written and a delete served all the same. *)
UnauthorizedServed(r) ==
  /\ ~token[r]
  /\ \/ op[r] # "delete" /\ Answer(r, "sent", 401) /\ UNCHANGED target
     \/ /\ op[r] = "delete" /\ Goto(r, "sent", "delete") /\ UNCHANGED code
        /\ target' = [target EXCEPT ![r] = Asked(r)[1]]
  /\ UNCHANGED <<server, sweeping, calls, result>>

Unauthorized(r) ==
  /\ ~token[r] /\ Answer(r, "sent", 401)
  /\ UNCHANGED <<server, sweeping, calls, target, result>>

ServeHTTP(r) ==
  /\ token[r]
  /\ \/ Handler(r) = "refused" /\ Answer(r, "sent", Refusal(Asked(r))) /\ UNCHANGED target
     \/ /\ Handler(r) # "refused" /\ Goto(r, "sent", Handler(r)) /\ UNCHANGED code
        /\ target' = [target EXCEPT ![r] = IF Asked(r) = <<>> THEN Blank ELSE Asked(r)[1]]
  /\ UNCHANGED <<server, sweeping, calls, result>>

(* Mutant: the number is read after the unlock, when another may have      *)
(* counted.                                                                *)
HandleCreateReread(r) ==
  /\ vmSeq < MaxSeq /\ vmSeq' = vmSeq + 1
  /\ Goto(r, "create", "launch")
  /\ \E n \in {vmSeq + 1, vmSeq + 2} : target' = [target EXCEPT ![r] = n]
  /\ UNCHANGED <<vms, sweeping, calls, code, result>>

(* vmSeq++ under the mutex, which is held for no more. *)
HandleCreate(r) ==
  /\ vmSeq < MaxSeq /\ vmSeq' = vmSeq + 1
  /\ Goto(r, "create", "launch") /\ target' = [target EXCEPT ![r] = vmSeq + 1]
  /\ UNCHANGED <<vms, sweeping, calls, code, result>>

(* Mutant: a handle is stored whether LaunchVM returned an error or not. *)
LaunchedAnyhow(r) ==
  /\ vms' = vms \cup {target[r]}
  /\ Goto(r, "launch", "created") \/ Goto(r, "launch", "launchFailed")
  /\ UNCHANGED <<vmSeq, sweeping, calls, target, code, result>>

(* LaunchVM returns; vms.Store. *)
Launched(r) ==
  /\ \/ Goto(r, "launch", "created") /\ vms' = vms \cup {target[r]}
     \/ Goto(r, "launch", "launchFailed") /\ UNCHANGED vms
  /\ UNCHANGED <<vmSeq, sweeping, calls, target, code, result>>

(* vms.Load, and the answer of a handler that only reads. *)
HandleGet(r) ==
  /\ \E h \in {"get", "logs"} : Answer(r, h, IF target[r] \in vms THEN 200 ELSE 404)
  /\ UNCHANGED <<server, sweeping, calls, target, result>>

HandleDelete(r) ==
  /\ \/ Goto(r, "delete", "stop") /\ target[r] \in vms /\ UNCHANGED code
     \/ Answer(r, "delete", 404) /\ target[r] \notin vms
  /\ UNCHANGED <<server, sweeping, calls, target, result>>

(* Mutant: the entry is deleted after the answer, in a goroutine. *)
StoppedUndeleted(r) ==
  /\ Goto(r, "stop", "deleted") \/ Goto(r, "stop", "stopFailed")
  /\ UNCHANGED <<server, sweeping, calls, target, code, result>>

(* Stop returns; vms.Delete if without an error. *)
Stopped(r) ==
  /\ \/ Goto(r, "stop", "deleted") /\ vms' = vms \ {target[r]}
     \/ Goto(r, "stop", "stopFailed") /\ UNCHANGED vms
  /\ UNCHANGED <<vmSeq, sweeping, calls, target, code, result>>

WriteHeader(r) ==
  /\ \/ Answer(r, "created", 201) \/ Answer(r, "deleted", 204)
     \/ Answer(r, "launchFailed", 500) \/ Answer(r, "stopFailed", 500)
  /\ UNCHANGED <<server, sweeping, calls, target, result>>

(* The callback of vms.Range: Stop has returned, and vms.Delete follows    *)
(* whether with an error or not. Which keys Range visits, and when it      *)
(* ends, is what StopVM is about: here it may be any that is there.        *)
StopAll ==
  /\ ~sweeping /\ sweeping' = TRUE
  /\ UNCHANGED <<server, calls, serving, result>>

Swept(n) ==
  /\ sweeping /\ n \in vms /\ vms' = vms \ {n}
  /\ UNCHANGED <<vmSeq, sweeping, calls, serving, result>>

(* No call is pending, and no handler at work but one beyond the bound. *)
AtRest ==
  /\ \A r \in Requests : op[r] # "none" /\ (pc[r] = "answered" => result[r] # "pending")
                         /\ (pc[r] # "answered" => pc[r] = "create" /\ vmSeq = MaxSeq)
  /\ UNCHANGED vars

Next ==
  \/ \E r \in Requests, t \in BOOLEAN :
       \/ CreateInstance(r, t)
       \/ \E i \in IdArgs : GetInstance(r, i, t) \/ DeleteInstance(r, i, t) \/ GetInstanceLogs(r, i, t)
  \/ \E r \in Requests :
       \/ Returns(r) \/ GivesUp(r)
       \/ Unauthorized(r) \/ ServeHTTP(r) \/ HandleCreate(r) \/ Launched(r)
       \/ HandleGet(r) \/ HandleDelete(r) \/ Stopped(r) \/ WriteHeader(r)
  \/ StopAll
  \/ \E n \in Ids : Swept(n)
  \/ AtRest

Spec == Init /\ [][Next]_vars

(***************************************************************************)
(* Properties                                                              *)
(***************************************************************************)
TypeOK ==
  /\ vmSeq \in 0..MaxSeq /\ vms \subseteq Ids /\ sweeping \in BOOLEAN
  /\ op \in [Requests -> Operations \cup {"none"}]
  /\ id \in [Requests -> IdArgs \cup {NoId}]
  /\ token \in [Requests -> BOOLEAN]
  /\ gone \in [Requests -> SUBSET Ids] /\ there \in [Requests -> SUBSET Ids]
  /\ pc \in [Requests -> {"none", "sent", "launch", "created", "launchFailed",
                          "stop", "deleted", "stopFailed", "answered"} \cup Operations]
  /\ target \in [Requests -> 0..Logs]
  /\ code \in [Requests -> {0, 200, 201, 204, 401, 404, 405, 500}]
  /\ result \in [Requests -> {"none", "pending", "ok", "error", "abandoned"}]

(* The path of r is that of instance n, or of its logs: its id is that of  *)
(* n, or is once it is decoded and cut at the first "?" or "#".            *)
Names(r, n) == IsInstance(Asked(r)) /\ Asked(r)[1] = n
NamesLogs(r, n) == IsLogs(Asked(r)) /\ Asked(r)[1] = n

(* Somebody asked to delete n, or all there is. *)
AskedToGo(n) == sweeping \/ \E q \in Requests : op[q] = "delete" /\ Names(q, n)

(* The registry changes only by what was asked for: an instance comes in   *)
(* by an authorized create, with a number no other create has, and goes by *)
(* an authorized delete whose path is its own, also if the id that the     *)
(* caller gave goes on after a "?" or a "#", or by StopAll.                *)
ChangesAsAsked ==
  [][ /\ \A n \in vms' \ vms : \E r \in Requests :
           token[r] /\ op[r] = "create" /\ target[r] = n
           /\ \A q \in Requests \ {r} : op[q] = "create" => target[q] # n
      /\ \A n \in vms \ vms' :
           sweeping \/ \E r \in Requests : token[r] /\ op[r] = "delete" /\ Names(r, n) ]_vars

(* What a caller was told holds for whoever calls later, also while other  *)
(* handlers are at work: of an instance reported deleted nothing succeeds, *)
(* and one reported created is there until somebody asks that it go.       *)
Linear ==
  \A r \in Requests : op[r] \in {"get", "delete", "logs"} =>
    /\ result[r] = "ok" => target[r] \notin gone[r]
    /\ \A n \in there[r] :
         /\ Names(r, n) \/ NamesLogs(r, n)
         /\ op[r] # "delete" /\ token[r] /\ ~AskedToGo(n)
         => code[r] \in {0, 200}

(* An instance that exists was reported to its creator, or will be, unless *)
(* the creator gave up: an error answer to a create means no instance. And *)
(* one reported created exists, or somebody asked that it go.              *)
CreatorKnows ==
  /\ \A n \in vms : \E r \in Requests :
       op[r] = "create" /\ target[r] = n /\ result[r] # "error"
  /\ \A r \in Requests : op[r] = "create" /\ result[r] = "ok" =>
       target[r] \in vms \/ AskedToGo(target[r])

(* An operation that succeeded was served by the handler it is meant for,  *)
(* whatever the id; only of the two that read, an id with a separator can  *)
(* make one be served as the other.                                        *)
ServedAsMeant ==
  \A r \in Requests : result[r] = "ok" =>
    \/ Handler(r) = op[r]
    \/ id[r].seps # <<>> /\ {op[r], Handler(r)} = {"get", "logs"}

=============================================================================
