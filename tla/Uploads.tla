------------------------------ MODULE Uploads -------------------------------
(***************************************************************************)
(* The handlers of the upload routes inside the pipeline of Requests: the  *)
(* files of one request are put into the S3 bucket in parallel, each under *)
(* a fresh key, and Promise.all answers with all URLs or with the first    *)
(* failure.  The other puts go on after that, and nothing ever removes an  *)
(* object.                                                                 *)
(***************************************************************************)
EXTENDS Requests

CONSTANTS
    MaxKeys,   \* bound: how many files are uploaded
    BatchSize  \* FilesInterceptor('files', 5)

ASSUME UploadAssumption ==
    /\ MaxKeys \in Nat
    /\ BatchSize \in Nat \ {0}

\* generateFileName (uuid v4): each key is a new one, here the next number.
Keys == 1 .. MaxKeys

VARIABLES
    used,  \* the keys that were made up so far are 1 .. used
    put,   \* put[k] : what became of key k
    ofReq, \* ofReq[r] : the keys of the request in slot r
    batch, \* history: batch[k] : the keys that were put together with k
    told,  \* history: keys whose URL reached a client
    left   \* history: keys whose request lost its client or its process

uploadVars == <<used, put, ofReq, batch, told, left>>

vars == <<requestVars, uploadVars>>

Fates == {"none", "sending", "stored", "failed"}

UploadsTypeOK ==
    /\ RequestTypeOK
    /\ used \in 0 .. MaxKeys
    /\ put \in [Keys -> Fates]
    /\ ofReq \in [Slots -> SUBSET Keys]
    /\ batch \in [Keys -> SUBSET Keys]
    /\ told \subseteq Keys
    /\ left \subseteq Keys

Init ==
    /\ RequestInit
    /\ used = 0
    /\ put = [k \in Keys |-> "none"]
    /\ ofReq = [r \in Slots |-> {}]
    /\ batch = [k \in Keys |-> {}]
    /\ told = {}
    /\ left = {}

InFlight == UNION {ofReq[r] : r \in Slots}

Uploading(r) == At(r, "handler") /\ req[r].route \in UploadRoutes

\* How many files the route takes.
Most(route) == IF route = UploadOne THEN 1 ELSE BatchSize

-----------------------------------------------------------------------------
(* uploadImage and uploadMultipleImages                                    *)

\* Mutant: the folder is looked at after the files were sent.
refuseFolder_late(r) ==
    /\ Uploading(r)
    /\ handlerThrows(r, 400)
    /\ UNCHANGED uploadVars

\* The folder is none of UploadFolder.
refuseFolder(r) ==
    /\ Uploading(r)
    /\ ofReq[r] = {}
    /\ handlerThrows(r, 400)
    /\ UNCHANGED uploadVars

\* files.map(uploadImage): every put is under way before the first is awaited.
startPuts(r) ==
    /\ Uploading(r)
    /\ ofReq[r] = {}
    /\ \E files \in 1 .. Most(req[r].route) :
        LET keys == used + 1 .. used + files
        IN  /\ used + files <= MaxKeys
            /\ used' = used + files
            /\ put' = [k \in Keys |-> IF k \in keys THEN "sending" ELSE put[k]]
            /\ batch' = [k \in Keys |-> IF k \in keys THEN keys ELSE batch[k]]
            /\ ofReq' = [ofReq EXCEPT ![r] = keys]
    /\ UNCHANGED <<requestVars, told, left>>

endPut(k, fate) ==
    /\ put[k] = "sending"
    /\ put' = [put EXCEPT ![k] = fate]
    /\ UNCHANGED <<requestVars, used, ofReq, batch, told, left>>

\* Mutant: Promise.any in the place of Promise.all.
returnUrls_any(r) ==
    /\ Uploading(r)
    /\ \E k \in ofReq[r] : put[k] = "stored"
    /\ handlerReturns(r)
    /\ UNCHANGED uploadVars

\* Promise.all: the URLs of all files.
returnUrls(r) ==
    /\ Uploading(r)
    /\ ofReq[r] # {}
    /\ \A k \in ofReq[r] : put[k] = "stored"
    /\ handlerReturns(r)
    /\ UNCHANGED uploadVars

\* The first failure, as InternalServerErrorException.
throwFailure(r) ==
    /\ Uploading(r)
    /\ \E k \in ofReq[r] : put[k] = "failed"
    /\ handlerThrows(r, 500)
    /\ UNCHANGED uploadVars

UploadHandler(r) ==
    \/ refuseFolder(r)
    \/ startPuts(r)
    \/ returnUrls(r)
    \/ throwFailure(r)

-----------------------------------------------------------------------------
(* The rest of the pipeline                                                *)

\* Mutant: a request is dropped where it is when its client hangs up.
finishUpload_abort(r) ==
    /\ ~At(r, "idle")
    /\ req' = [req EXCEPT ![r] = Idle]
    /\ left' = left \cup ofReq[r]
    /\ ofReq' = [ofReq EXCEPT ![r] = {}]
    /\ UNCHANGED <<listed, expired, used, put, batch, told>>

\* The answer reaches the client, or the client has hung up.
finishUpload(r) ==
    /\ finish(r)
    /\ \/ told' = (IF req[r].code = 200 THEN told \cup ofReq[r] ELSE told) /\ left' = left
       \/ told' = told /\ left' = left \cup ofReq[r]
    /\ ofReq' = [ofReq EXCEPT ![r] = {}]
    /\ UNCHANGED <<used, put, batch>>

\* A put that S3 has received may still be carried out.
crashUploads ==
    /\ crash
    /\ left' = left \cup InFlight
    /\ ofReq' = [r \in Slots |-> {}]
    /\ UNCHANGED <<used, put, batch, told>>

otherHandler(r) == Handler(r) /\ req[r].route \notin UploadRoutes

\* What a request does without its client.
Serve(r) ==
    \/ (Around(r) \/ otherHandler(r)) /\ UNCHANGED uploadVars
    \/ UploadHandler(r)
    \/ finishUpload(r)

EndPut(k) == endPut(k, "stored") \/ endPut(k, "failed")

Next ==
    \/ \E r \in Slots : \E route \in Called[r], t \in Tokens \cup {NoToken}, scheme \in Schemes :
        arrive(r, route, t, scheme) /\ UNCHANGED uploadVars
    \/ \E r \in Slots : Serve(r)
    \/ \E k \in Keys : EndPut(k)
    \/ \E t \in Tokens : expire(t) /\ UNCHANGED uploadVars
    \/ crashUploads

\* Node runs what it can, and Redis, MySQL and S3 answer or fail in the end.
Fairness ==
    /\ \A r \in Slots : WF_vars(Serve(r))
    /\ WF_vars(\E k \in Keys : EndPut(k))

Spec == Init /\ [][Next]_vars /\ Fairness

-----------------------------------------------------------------------------
(* Properties                                                              *)

\* A URL that a client was given is that of an object in the bucket, however the
\* puts of a batch ended and in whatever order.
ToldIsStored == \A k \in told : put[k] = "stored"

\* An object nobody was told of, and nobody will be, is the left-over of a request
\* that lost its client or its process, or of a batch of which another put failed:
\* no other way to fail leaves objects behind.
StrayHasACause ==
    \A k \in Keys \ (told \cup InFlight) : put[k] = "stored" =>
        \/ k \in left
        \/ \E other \in batch[k] : put[other] = "failed"

\* With these handlers each request still runs as Requests has it: one answer,
\* after the handler, and no other step.
RunsAsRequests == RequestSpec

\* Every request ends: the answer is written, whatever was thrown.
EveryRequestEnds == \A r \in Slots : ~At(r, "idle") ~> At(r, "idle")

\* How many steps of its own a request q has left at most, when keys are the ones
\* it has put and signedOut the tokens on the blacklist.
Left(q, keys, signedOut) ==
    CASE q.step = "idle" -> 0
      [] q.step = "answered" -> 1
      [] q.step = "handler" -> 2 + (IF keys = {} THEN 1 ELSE 0)
                                 + (IF q.token \in signedOut THEN 0 ELSE 1)
      [] q.step = "pipes" -> 5
      [] q.step = "guards" -> 10 - q.passed

StepsLeft(r) == Left(req[r], ofReq[r], listed)

\* What EveryRequestEnds rests on: a request never goes round in circles.  Each step
\* of its own brings it nearer to its end, and no step of another request, of S3, of
\* the clock or of a crash takes it further away.
EveryStepCounts ==
    [][\A r \in Slots : ~At(r, "idle") =>
          /\ StepsLeft(r)' <= StepsLeft(r)
          /\ Serve(r) => StepsLeft(r)' < StepsLeft(r)]_vars
=============================================================================
