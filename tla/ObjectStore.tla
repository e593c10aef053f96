---------------------------- MODULE ObjectStore ----------------------------
(***************************************************************************)
(* The object store: SimulatedObjectStore (src/object-store.ts).  Objects  *)
(* in two buckets, pre-signed URLs for one object each, and a private HTTP *)
(* server that the first URL starts when no dev server gave its address.   *)
(*                                                                         *)
(* A call that makes a URL awaits that server; an upload awaits its body.  *)
(* All else is one stretch.                                                *)
(***************************************************************************)
EXTENDS Integers, FiniteSets

CONSTANTS Slots,          \* where an object can be: objKey() of a bucket and a key
          Contents,       \* content -> its length; its checksum is itself
          UrlCalls,       \* calls of createUploadUrl and its kin
          UrlRequests,    \* call -> what it may ask
          Uploads,        \* PUT requests on a pre-signed URL
          UrlTtl,         \* PRESIGNED_URL_TTL_MS
          MaxObjectTtl,   \* MAX_OBJECT_TTL_SECONDS, the default too; 1 is the least
          MaxObjectSize,  \* MAX_OBJECT_SIZE
          MaxStoreTime,   \* bound: how far the clock runs
          MaxVersion      \* bound: how often one key is overwritten

VARIABLES objects,      \* slot -> what is stored
          urlTokens,       \* URL -> what it permits
          baseUrl,      \* the dev server's address was given
          server,       \* the ephemeral server, named for the call it was made in
          listening,    \* servers that listen
          urlCall,      \* call -> its request, progress and the base it was given
          upload,       \* PUT -> its URL, body and progress
          dump,         \* what dumpAll() last gave
          clock,
          torn          \* history: calls begun before the last reset() or stop()

osVars == <<objects, urlTokens, baseUrl, server, listening, urlCall, upload, dump, clock, torn>>

NoObject == [present |-> FALSE]
NoToken  == [kind |-> "none"]
DevServer == "the dev server"
NoServer == "no server"

Present(o) == objects[o].present
Live(o) == Present(o) /\ objects[o].expiresAt > clock

-----------------------------------------------------------------------------
(* Objects *)

\* liveObject(): whoever looks at an expired object removes it.
Look(o) ==
  /\ Present(o) /\ ~Live(o)
  /\ objects' = [objects EXCEPT ![o] = NoObject]
  /\ UNCHANGED <<urlTokens, baseUrl, server, listening, urlCall, upload, dump, clock, torn>>

\* storeObject(): an overwrite keeps createdAt and counts the version.
Stored(o, ttl) ==
  [present |-> TRUE,
   createdAt |-> IF Live(o) THEN objects[o].createdAt ELSE clock,
   version |-> IF Live(o) THEN objects[o].version + 1 ELSE 1,
   expiresAt |-> clock + ttl]

Writable(o) == Present(o) => objects[o].version < MaxVersion

\* put() writes to the default bucket, seedObject() to either; put() checks the time
\* to live, both default it.
PutDirectly(o, ttl) ==
  /\ ttl \in 1..MaxObjectTtl /\ Writable(o)
  /\ objects' = [objects EXCEPT ![o] = Stored(o, ttl)]
  /\ UNCHANGED <<urlTokens, baseUrl, server, listening, urlCall, upload, dump, clock, torn>>

Delete(o) ==
  /\ Present(o)
  /\ objects' = [objects EXCEPT ![o] = NoObject]
  /\ UNCHANGED <<urlTokens, baseUrl, server, listening, urlCall, upload, dump, clock, torn>>

Empty == [o \in Slots |-> NoObject]

\* dumpAll() takes the map as it is; restoreAll() adds to it, entry by entry.  Bound:
\* one dump.
DumpAll ==
  /\ dump = Empty /\ dump' = objects
  /\ UNCHANGED <<objects, urlTokens, baseUrl, server, listening, urlCall, upload, clock, torn>>

RestoreAll ==
  /\ dump # Empty
  /\ objects' = [o \in Slots |->
                   IF dump[o].present THEN dump[o] ELSE objects[o]]
  /\ UNCHANGED <<urlTokens, baseUrl, server, listening, urlCall, upload, dump, clock, torn>>

-----------------------------------------------------------------------------
(* Pre-signed URLs.  A request is                                           *)
(*   [kind, slot, length, content (its checksum), ttl, overwrite]       *)

UploadBodyValid(r) == /\ r.length <= MaxObjectSize
                      /\ r.ttl \in 1..MaxObjectTtl

\* createUploadUrl(), createDownloadUrl(), createCDNUrl() before their await.
UrlRefused(r) ==
  \/ r.kind = "upload" /\ ~UploadBodyValid(r)
  \/ r.kind = "upload" /\ ~r.overwrite /\ Live(r.slot)
  \/ r.kind = "download" /\ ~Live(r.slot)

RefuseUrl(c) ==
  /\ urlCall[c].at = "new"
  /\ \E r \in UrlRequests[c] :
       /\ UrlRefused(r)
       /\ urlCall' = [urlCall EXCEPT ![c] = [at |-> "refused", req |-> r, base |-> NoServer]]
  /\ UNCHANGED <<objects, urlTokens, baseUrl, server, listening, upload, dump, clock, torn>>

\* ensureBaseUrl() up to its await: the dev server's address, the server there is, or
\* a new one that has yet to listen and is known to this call alone.
BeginUrl(c) ==
  /\ urlCall[c].at = "new"
  /\ \E r \in UrlRequests[c] :
       /\ ~UrlRefused(r)
       /\ urlCall' = [urlCall EXCEPT ![c] =
            IF baseUrl THEN [at |-> "based", req |-> r, base |-> DevServer]
            ELSE IF server # NoServer THEN [at |-> "based", req |-> r, base |-> server]
            ELSE [at |-> "starting", req |-> r, base |-> NoServer]]
  /\ UNCHANGED <<objects, urlTokens, baseUrl, server, listening, upload, dump, clock, torn>>

\* Mutant: only one private server at a time, the one before it is closed.
OnlyOneListens(c) == {c}

NowListening(c) == listening \cup {c}

\* The server of the call listens and becomes the ephemeral server, be there another
\* by now or not.
ServerListens(c) ==
  /\ urlCall[c].at = "starting"
  /\ server' = c /\ listening' = NowListening(c)
  /\ urlCall' = [urlCall EXCEPT ![c].at = "based", ![c].base = c]
  /\ UNCHANGED <<objects, urlTokens, baseUrl, upload, dump, clock, torn>>

\* issueToken(), after the await: nothing is looked at again.
IssueToken(c) ==
  /\ urlCall[c].at = "based"
  /\ urlCall' = [urlCall EXCEPT ![c].at = "done"]
  /\ urlTokens' = [urlTokens EXCEPT ![c] = [kind |-> urlCall[c].req.kind, req |-> urlCall[c].req,
                                      urlExpiresAt |-> clock + UrlTtl]]
  /\ UNCHANGED <<objects, baseUrl, server, listening, upload, dump, clock, torn>>

-----------------------------------------------------------------------------
(* handleRequest(): PUT on a URL.  What a GET answers changes nothing but    *)
(* what Look does.                                                           *)

Good(t) == urlTokens[t].kind # "none" /\ urlTokens[t].urlExpiresAt > clock

\* Bound: the uploads, which are alike, begin in a fixed order.
NextUpload == CHOOSE u \in Uploads : upload[u].at = "new"

\* Up to the body: the URL is judged here, and not again.
BeginUpload(u) ==
  /\ upload[u].at = "new" /\ u = NextUpload
  /\ \E t \in UrlCalls, body \in DOMAIN Contents :
       /\ Good(t) /\ urlTokens[t].kind = "upload"
       /\ upload' = [upload EXCEPT ![u] = [at |-> "reading", url |-> t, body |-> body,
                                           constraints |-> urlTokens[t].req]]
  /\ UNCHANGED <<objects, urlTokens, baseUrl, server, listening, urlCall, dump, clock, torn>>

\* Mutant: overwrite is not looked at again when the body is there.
AsDeclared(u) ==
  LET r == upload[u].constraints
  IN  Contents[upload[u].body] = r.length /\ upload[u].body = r.content

UploadAccepted(u) ==
  LET r == upload[u].constraints
  IN  /\ Contents[upload[u].body] <= MaxObjectSize
      /\ Contents[upload[u].body] = r.length
      /\ upload[u].body = r.content
      /\ ~r.overwrite => ~Live(r.slot)

RejectUpload(u) ==
  /\ upload[u].at = "reading" /\ ~UploadAccepted(u)
  /\ upload' = [upload EXCEPT ![u].at = "rejected"]
  /\ UNCHANGED <<objects, urlTokens, baseUrl, server, listening, urlCall, dump, clock, torn>>

StoreUpload(u) ==
  /\ upload[u].at = "reading" /\ UploadAccepted(u)
  /\ LET r == upload[u].constraints IN
       /\ Writable(r.slot)
       /\ objects' = [objects EXCEPT ![r.slot] = Stored(r.slot, r.ttl)]
  /\ upload' = [upload EXCEPT ![u].at = "stored"]
  /\ UNCHANGED <<urlTokens, baseUrl, server, listening, urlCall, dump, clock, torn>>

-----------------------------------------------------------------------------
(* Life of the store *)

SetBaseUrl ==
  /\ ~baseUrl /\ baseUrl' = TRUE
  /\ UNCHANGED <<objects, urlTokens, server, listening, urlCall, upload, dump, clock, torn>>

\* closeEphemeralServer() closes the server it knows of.
CloseEphemeralServer ==
  /\ listening' = listening \ {server} /\ server' = NoServer
  /\ torn' = torn \cup {c \in UrlCalls : urlCall[c].at # "new"}

StopObjectStore ==
  /\ CloseEphemeralServer
  /\ UNCHANGED <<objects, urlTokens, baseUrl, urlCall, upload, dump, clock>>

\* reset() forgets objects and URLs, and whatever is in progress goes on.
ResetObjectStore ==
  /\ CloseEphemeralServer
  /\ objects' = Empty
  /\ urlTokens' = [c \in UrlCalls |-> NoToken]
  /\ UNCHANGED <<baseUrl, urlCall, upload, dump, clock>>

AgeObjects ==
  /\ clock < MaxStoreTime /\ clock' = clock + 1
  /\ UNCHANGED <<objects, urlTokens, baseUrl, server, listening, urlCall, upload, dump, torn>>

ObjectStoreInit ==
  /\ objects = Empty
  /\ urlTokens = [c \in UrlCalls |-> NoToken]
  /\ baseUrl = FALSE /\ server = NoServer /\ listening = {}
  /\ urlCall = [c \in UrlCalls |-> [at |-> "new", base |-> NoServer]]
  /\ upload = [u \in Uploads |-> [at |-> "new"]]
  /\ dump = Empty /\ clock = 0 /\ torn = {}

ObjectStoreNext ==
  \/ \E o \in Slots :
       \/ Look(o) \/ Delete(o)
       \/ \E ttl \in {1, MaxObjectTtl} : PutDirectly(o, ttl)
  \/ \E c \in UrlCalls : RefuseUrl(c) \/ BeginUrl(c) \/ ServerListens(c) \/ IssueToken(c)
  \/ \E u \in Uploads : BeginUpload(u) \/ RejectUpload(u) \/ StoreUpload(u)
  \/ DumpAll \/ RestoreAll \/ SetBaseUrl \/ AgeObjects

ObjectStoreSpec ==
  ObjectStoreInit /\ [][ObjectStoreNext \/ StopObjectStore \/ ResetObjectStore]_osVars

-----------------------------------------------------------------------------
(* Properties *)

\* An upload replaces an object that is live at that moment only if its URL allowed
\* it, though the URL was made, and the upload begun, before that object was there.
OverwriteIsConsented ==
  [][\A u \in Uploads :
       upload[u].at = "reading" /\ upload'[u].at = "stored" =>
         LET r == upload[u].constraints
         IN  Live(r.slot) => r.overwrite]_osVars

\* A URL that was handed out names a server that listens, however many calls started
\* one at once and in whatever order these came up, unless a reset() or stop() came
\* since the call began.
UrlsReachable ==
  \A c \in UrlCalls \ torn :
    urlCall[c].at = "done" => urlCall[c].base \in listening \cup {DevServer}

\* Both: a signed URL can be used, and for what it was signed alone.
SignedUrlsHold == []UrlsReachable /\ OverwriteIsConsented
=============================================================================
