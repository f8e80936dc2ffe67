----------------------------- MODULE AtomicStore -----------------------------
(***************************************************************************)
(* What the server promises its clients: a set of documents on which every *)
(* request takes effect at once, at some moment between its arrival and    *)
(* its answer.  Crashes end requests without an answer, and may leave each *)
(* of them done or undone, never in between and never for one that was     *)
(* answered before.                                                        *)
(***************************************************************************)
EXTENDS Documents, Sequences

CONSTANTS
    Task,        \* requests; each is handled once
    Workload,    \* the requests that each task may turn out to be
    NoRequest,
    Absent       \* no document

VARIABLES
    content,     \* the documents
    request,     \* what each task asks for
    status,      \* how far it has got
    result       \* the documents that a read was answered with

vars == <<content, request, status, result>>

Content == [Resource -> {Absent} \cup Snapshot]
NoDocuments == [r \in Resource |-> Absent]
Statuses == {"idle", "waiting", "applied", "ok", "rejected", "failed", "lost"}

\* The resources that a request is about, and the one that it changes.
Subjects(req) == {req.names[i] : i \in DOMAIN req.names}
Target(req) == req.names[1]

\* What a request makes of the document it finds; a request that does not
\* apply to it is turned down.
Applies(req, doc) ==
    CASE req.op = "create_resource" -> doc = Absent
      [] req.op = "delete_resource" -> doc # Absent
      [] OTHER -> doc # Absent /\ CanUpdate(req, doc)

Effect(req, doc) ==
    CASE req.op = "create_resource" -> req.doc
      [] req.op = "delete_resource" -> Absent
      [] OTHER -> Updated(req, doc)

InFlight(t) == status[t] \in {"waiting", "applied"}

Init ==
    /\ content \in Content
    /\ request = [t \in Task |-> NoRequest]
    /\ status = [t \in Task |-> "idle"]
    /\ result = [t \in Task |-> NoDocuments]

Arrive(t) ==
    /\ status[t] = "idle"
    /\ \E req \in Workload[t] : request' = [request EXCEPT ![t] = req]
    /\ status' = [status EXCEPT ![t] = "waiting"]
    /\ UNCHANGED <<content, result>>

\* A write takes effect, on the document of this moment.
Apply(t) ==
    /\ status[t] = "waiting"
    /\ request[t].op # "read"
    /\ LET r == Target(request[t])
       IN  /\ Applies(request[t], content[r])
           /\ content' = [content EXCEPT ![r] = Effect(request[t], @)]
    /\ status' = [status EXCEPT ![t] = "applied"]
    /\ UNCHANGED <<request, result>>

Confirm(t) ==
    /\ status[t] = "applied"
    /\ status' = [status EXCEPT ![t] = "ok"]
    /\ UNCHANGED <<content, request, result>>

\* A read is answered with several documents of one moment.
Read(t) ==
    /\ status[t] = "waiting"
    /\ request[t].op = "read"
    /\ \A r \in Subjects(request[t]) : content[r] # Absent
    /\ result' = [result EXCEPT ![t] =
                     [r \in Resource |->
                         IF r \in Subjects(request[t]) THEN content[r] ELSE Absent]]
    /\ status' = [status EXCEPT ![t] = "ok"]
    /\ UNCHANGED <<content, request>>

\* What is turned down did not apply at some moment, and changes nothing.
Reject(t) ==
    /\ status[t] = "waiting"
    /\ IF request[t].op = "read"
       THEN \E r \in Subjects(request[t]) : content[r] = Absent
       ELSE ~Applies(request[t], content[Target(request[t])])
    /\ status' = [status EXCEPT ![t] = "rejected"]
    /\ UNCHANGED <<content, request, result>>

\* A server error: the request has had its effect before, or never will.
Fail(t) ==
    /\ InFlight(t)
    /\ status' = [status EXCEPT ![t] = "failed"]
    /\ UNCHANGED <<content, request, result>>

\* The server stops and starts again.  Of the writes without an answer, some
\* have taken effect, at most one on each document.
Restart ==
    /\ content' \in Content
    /\ \A r \in Resource :
           \/ content'[r] = content[r]
           \/ \E t \in Task :
                  /\ status[t] = "waiting"
                  /\ request[t].op # "read"
                  /\ Target(request[t]) = r
                  /\ Applies(request[t], content[r])
                  /\ content'[r] = Effect(request[t], content[r])
    /\ status' = [t \in Task |-> IF InFlight(t) THEN "lost" ELSE status[t]]
    /\ UNCHANGED <<request, result>>

Next ==
    \/ \E t \in Task :
           Arrive(t) \/ Apply(t) \/ Confirm(t) \/ Read(t) \/ Reject(t) \/ Fail(t)
    \/ Restart

Spec == Init /\ [][Next]_vars
=============================================================================
