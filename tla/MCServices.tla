----------------------------- MODULE MCServices -----------------------------
(***************************************************************************)
(* An instance of Services for TLC.                                        *)
(*                                                                         *)
(* Realtime: two publications, the second perhaps on the global plane with *)
(* a token or without a module; three subscriptions of two callbacks, two  *)
(* of them of one callback on one channel, one with replay.                *)
(* Object store: two calls for a URL of one object, two uploads, one       *)
(* content as declared and one that is not.                                *)
(* Deploys: two of an app with a function of each kind in two files, one   *)
(* save of a file; another simulator of the process, and one variable that *)
(* the host has already.                                                   *)
(* UI: two modules, two renders and one waitForContent() under a loader    *)
(* that caches, one late re-render or reset.                               *)
(***************************************************************************)
EXTENDS Services, TLC

CONSTANTS p1, p2, s1, s2, s3, c1, c2, u1, u2, d1, d2

NoOverrides == [kind |-> "none", names |-> {}]
Array(names) == [kind |-> "array", names |-> names]
NotAnArray == [kind |-> "other", names |-> {}]
AtIssue == [n \in {"issue"} |-> "10001"]
Nowhere == <<>>

Pub(api, module, place, o, token) ==
  [api |-> api, kind |-> "resolver", channel |-> "news", module |-> module,
   place |-> place, overrides |-> o, token |-> token]

Sub(api, module, place, o, token, callback, replay) ==
  [api |-> api, channel |-> "news", module |-> module, place |-> place,
   overrides |-> o, token |-> token, callback |-> callback, replay |-> replay]

MCPublishRequests ==
  (p1 :> {Pub("publish", "panel", AtIssue, NoOverrides, "none")}) @@
  (p2 :> {Pub("publish", "panel", AtIssue, NoOverrides, "none"),
          Pub("publishGlobal", NoModule, Nowhere, NotAnArray, "token"),
          Pub("publishFromBridge", NoModule, AtIssue, Array({"issue"}), "none"),
          Pub("publishFromBridge", NoModule, Nowhere, NoOverrides, "token")})

MCSubscribeRequests ==
  (s1 :> {Sub("subscribe", "panel", AtIssue, NoOverrides, "none", "f", 0)}) @@
  (s2 :> {Sub("subscribe", "panel", AtIssue, NoOverrides, "none", "g", 1)}) @@
  (s3 :> {Sub("subscribe", "panel", AtIssue, NoOverrides, "none", "f", 0),
          Sub("subscribe", "page", AtIssue, Array({"issue"}), "none", "f", 0),
          Sub("subscribe", "panel", AtIssue, Array({}), "token", "f", 0)})

MCTokenBody == [t \in {"token"} |-> [channel |-> "news", claims |-> "team a",
                                     permissions |-> {"publish", "subscribe"}]]

UploadUrl(length, overwrite) ==
  [kind |-> "upload", slot |-> "default:a", length |-> length, content |-> "text",
   ttl |-> 1, overwrite |-> overwrite]
DownloadUrl ==
  [kind |-> "download", slot |-> "default:a", length |-> 0, content |-> "text",
   ttl |-> 0, overwrite |-> FALSE]

MCUrlRequests ==
  (c1 :> {UploadUrl(1, FALSE), DownloadUrl}) @@
  (c2 :> {UploadUrl(1, TRUE), UploadUrl(9, TRUE)})
MCContents == [text |-> 1, longer |-> 2]

MCKinds == {"resolver", "map", "ui function", "generic", "trigger", "consumer",
            "scheduled", "web trigger"}
MCSourceFiles == <<"index", "jobs">>
MCSourceOf == [k \in MCKinds |-> IF k \in {"resolver", "generic", "trigger"} THEN "index"
                                 ELSE "jobs"]
MCHostEnv == [k \in {"KEY"} |-> "host"]
MCHostUserVars == [k \in {"KEY"} |-> Absent]
=============================================================================
