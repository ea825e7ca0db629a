---------------------------- MODULE UploadBundles ----------------------------
(***************************************************************************)
(* The upload side of the bundle protocol: UploadBundleInfoReceiver       *)
(* (src/airdcpp/UploadBundleInfoReceiver.cpp) and UploadBundle            *)
(* (src/airdcpp/UploadBundle.cpp).  A downloader sends UBD commands over  *)
(* UDP (create, change, update, remove) and UBN progress notes; UDP may   *)
(* lose, repeat or reorder them, so the commands are inputs chosen        *)
(* freely.  Uploads (connections) are created and removed by the upload   *)
(* manager; work on an upload is posted with callAsync and runs later on  *)
(* that connection's thread, in posting order.  The Second timer removes  *)
(* bundles that have been idle for more than BUNDLE_DELAY_SECONDS ticks.  *)
(*                                                                         *)
(* A bundle object is a pair <<bundle token, generation>>: a bundle       *)
(* removed and created again under the same token is a new object, which  *)
(* matters because uploadMap and the posted callbacks hold pointers.      *)
(***************************************************************************)
EXTENDS Naturals, Sequences, FiniteSets

CONSTANTS
    BundleTokens,        \* bundle tokens the downloader uses
    UploadTokens,        \* upload (connection) tokens
    Sizes,               \* bundle sizes the downloader announces
    MaxGen,              \* bound on bundle objects created per token
    BundleDelaySeconds,  \* BUNDLE_DELAY_SECONDS (60 in the code)
    MaxCommands,         \* bound on UDP commands received
    MaxUploads,          \* bound on uploads created
    None

ASSUME /\ Sizes \subseteq Nat \ {0}
       /\ MaxGen \in Nat \ {0}
       /\ BundleDelaySeconds \in Nat

Objs == BundleTokens \X (1..MaxGen)
MaxSize == CHOOSE s \in Sizes : \A t \in Sizes : t <= s

VARIABLES
    bundles,     \* bundles: bundle token -> bundle object
    gen,         \* generations created per bundle token (object identity)
    bUploads,    \* UploadBundle::uploads (upload tokens) per object
    bDelay,      \* UploadBundle::delayTime per object
    bSingle,     \* UploadBundle::singleUser per object
    bSize,       \* UploadBundle::size per object
    bSegments,   \* UploadBundle::uploadedSegments per object
    uploadMap,   \* uploadMap: upload token -> bundle object
    live,        \* uploads that exist in the upload manager
    pending,     \* callbacks posted with callAsync, per connection, in order
    udp,         \* UDP thread between a failed callAsync and saving uploadMap
    commands,    \* UDP commands received so far
    created      \* uploads created so far

vars == <<bundles, gen, bUploads, bDelay, bSingle, bSize, bSegments, uploadMap,
          live, pending, udp, commands, created>>
bundleVars == <<bUploads, bDelay, bSingle, bSize, bSegments>>

Alive == {bundles[t] : t \in {x \in BundleTokens : bundles[x] # None}}

-----------------------------------------------------------------------------
(* UploadBundle *)

\* mutant: the segment is added without the size check
AddUploadedSegmentUnchecked(o, pos) ==
    IF bSingle[o] THEN [bSegments EXCEPT ![o] = @ + pos] ELSE bSegments

\* addUploadedSegment(aSize): only in single-user mode and within size
AddUploadedSegment(o, pos) ==
    IF bSingle[o] /\ pos + bSegments[o] <= bSize[o]
    THEN [bSegments EXCEPT ![o] = @ + pos] ELSE bSegments

\* UploadBundle(target, token, size, singleUser, uploaded): uploaded clamped to size
NewBundle(o, single, size, dl) ==
    /\ bUploads' = [bUploads EXCEPT ![o] = {}]
    /\ bDelay' = [bDelay EXCEPT ![o] = 0]
    /\ bSingle' = [bSingle EXCEPT ![o] = single]
    /\ bSize' = [bSize EXCEPT ![o] = size]
    /\ bSegments' = [bSegments EXCEPT ![o] = IF dl > size THEN size ELSE dl]

(* setSingleUser(aSingleUser, aUploadedSegments): entering single-user    *)
(* mode keeps the downloaded bytes only when within size; leaving it      *)
(* clears currentUploaded, which is not modelled (speed counters).        *)
SetSingleUser(o, single, dl) ==
    /\ bSingle' = [bSingle EXCEPT ![o] = single]
    /\ bSegments' = IF single /\ dl <= bSize[o]
                    THEN [bSegments EXCEPT ![o] = dl] ELSE bSegments

\* addUpload(u): the first connection resets delayTime
AddUpload(o, u) ==
    /\ bUploads' = [bUploads EXCEPT ![o] = @ \cup {u}]
    /\ bDelay' = IF Cardinality(bUploads[o] \cup {u}) = 1
                 THEN [bDelay EXCEPT ![o] = 0] ELSE bDelay

-----------------------------------------------------------------------------
(* UploadBundleInfoReceiver::addBundleConnection(aUploadToken, aBundle)   *)
(* as seen by the calling thread: a connection held by another bundle is  *)
(* removed with removeBundleConnection(aUploadToken, aBundle); then the   *)
(* add is posted with callAsync, or, when the upload does not exist, the  *)
(* UDP thread goes on to save the bundle in uploadMap.                     *)
PostRemove(u, b) == IF u \in live THEN <<"remove", b>> ELSE <<>>

AddBundleConnection(u, b) ==
    LET old == uploadMap[u]
        rm == IF old # None /\ old # b THEN PostRemove(u, b) ELSE <<>>
        add == IF u \in live THEN <<"add", b>> ELSE <<>>
        posted == (IF rm = <<>> THEN <<>> ELSE <<rm>>) \o
                  (IF add = <<>> THEN <<>> ELSE <<add>>)
    IN /\ pending' = [pending EXCEPT ![u] = @ \o posted]
       /\ udp' = IF u \in live THEN None ELSE <<u, b>>

\* a UDP command of the downloader, counted against MaxCommands
Command == udp = None /\ commands < MaxCommands /\ commands' = commands + 1

-----------------------------------------------------------------------------
(* UDP thread: onUBD / onUBN *)

(* createBundle: a new UploadBundle (uploaded clamped to size) is stored *)
(* in bundles and the connection is added.  A create for an existing     *)
(* bundle token runs changeBundle(cmd): that is the ChangeBundle action.  *)
CreateBundle(t, u, single, size, dl) ==
    /\ Command
    /\ bundles[t] = None
    /\ gen[t] < MaxGen
    /\ LET o == <<t, gen[t] + 1>>
       IN /\ gen' = [gen EXCEPT ![t] = @ + 1]
          /\ bundles' = [bundles EXCEPT ![t] = o]
          /\ NewBundle(o, single, size, dl)
          /\ AddBundleConnection(u, o)
    /\ UNCHANGED <<uploadMap, live, created>>

\* changeBundle: the connection moves to an existing bundle
ChangeBundle(t, u) ==
    /\ Command
    /\ bundles[t] # None
    /\ AddBundleConnection(u, bundles[t])
    /\ UNCHANGED <<bundles, gen, bundleVars, uploadMap, live, created>>

(* updateBundleInfo: MU leaves single-user mode; SU enters it with the    *)
(* downloaded bytes (kept only if within size); otherwise a new size.     *)
UpdateBundleInfo(t, mode, size, dl) ==
    /\ Command
    /\ bundles[t] # None
    /\ LET o == bundles[t] IN
       CASE mode = "MU" -> SetSingleUser(o, FALSE, dl) /\ UNCHANGED bSize
         [] mode = "SU" -> SetSingleUser(o, TRUE, dl) /\ UNCHANGED bSize
         [] OTHER -> /\ bSize' = [bSize EXCEPT ![o] = size]
                     /\ UNCHANGED <<bSingle, bSegments>>
    /\ UNCHANGED <<bundles, gen, bUploads, bDelay, uploadMap, live, pending, udp, created>>

\* removeBundleConnection(cmd): the bundle is looked up by the upload token
RemoveBundleConnection(u) ==
    /\ Command
    /\ uploadMap[u] # None
    /\ pending' = [pending EXCEPT ![u] = @ \o
                    (IF u \in live THEN <<<<"remove", uploadMap[u]>>>> ELSE <<>>)]
    /\ UNCHANGED <<bundles, gen, bundleVars, uploadMap, live, udp, created>>

(* onUBN: ignored in single-user mode; PE sets uploadedSegments to        *)
(* size * percent / 100 (percent 0, 50 or 100 here).                      *)
OnUBN(t, percent) ==
    /\ Command
    /\ bundles[t] # None
    /\ ~bSingle[bundles[t]]
    /\ bSegments' = [bSegments EXCEPT ![bundles[t]] = (bSize[bundles[t]] * percent) \div 100]
    /\ UNCHANGED <<bundles, gen, bUploads, bDelay, bSingle, bSize, uploadMap, live,
                   pending, udp, created>>

\* addBundleConnection, upload not found: uploadMap[aUploadToken] = aBundle
SaveUploadInfo ==
    /\ udp # None
    /\ uploadMap' = [uploadMap EXCEPT ![udp[1]] = udp[2]]
    /\ udp' = None
    /\ UNCHANGED <<bundles, gen, bundleVars, live, pending, commands, created>>

-----------------------------------------------------------------------------
(* Connection threads *)

(* UploadManagerListener::Created: a bundle saved for this token gets the *)
(* connection through addBundleConnection (same bundle: only the add).    *)
UploadCreated(u) ==
    /\ u \notin live
    /\ created < MaxUploads
    /\ created' = created + 1
    /\ live' = live \cup {u}
    /\ pending' = IF uploadMap[u] = None THEN pending
                  ELSE [pending EXCEPT ![u] = Append(@, <<"add", uploadMap[u]>>)]
    /\ UNCHANGED <<bundles, gen, bundleVars, uploadMap, udp, commands>>

(* UploadBundle::removeUpload(u): if the bundle holds the connection, the *)
(* upload's position is added as a segment and the connection removed.   *)
RemoveUpload(o, u, pos) ==
    /\ bSegments' = IF u \in bUploads[o] THEN AddUploadedSegment(o, pos) ELSE bSegments
    /\ bUploads' = [bUploads EXCEPT ![o] = @ \ {u}]

\* UploadManagerListener::Removed: removeBundleConnectionUnsafe under the lock
UploadRemoved(u) ==
    /\ u \in live
    /\ live' = live \ {u}
    /\ IF uploadMap[u] = None
       THEN UNCHANGED <<bUploads, bSegments>>
       ELSE \E pos \in 0..1 : RemoveUpload(uploadMap[u], u, pos)
    \* tasks still queued on the removed connection's thread go with it
    /\ pending' = [pending EXCEPT ![u] = <<>>]
    /\ UNCHANGED <<bundles, gen, bDelay, bSingle, bSize, uploadMap, udp,
                   commands, created>>

(* A posted callback runs on the connection's thread: add                 *)
(* (addBundleConnectionUnsafe: UploadBundle::addUpload, resetting         *)
(* delayTime on the first connection, and uploadMap) or remove            *)
(* (removeBundleConnectionUnsafe).                                        *)
RunCallback(u) ==
    /\ pending[u] # <<>>
    /\ LET kind == Head(pending[u])[1]
           o == Head(pending[u])[2]
       IN IF kind = "add"
          THEN /\ AddUpload(o, u)
               /\ uploadMap' = [uploadMap EXCEPT ![u] = o]
               /\ UNCHANGED bSegments
          ELSE /\ \E pos \in 0..1 : RemoveUpload(o, u, pos)
               /\ UNCHANGED <<bDelay, uploadMap>>
    /\ pending' = [pending EXCEPT ![u] = Tail(@)]
    /\ UNCHANGED <<bundles, gen, bSingle, bSize, live, udp, commands, created>>

-----------------------------------------------------------------------------
(* Timer thread: on(Second) -> removeIdleBundles under the write lock:   *)
(* every bundle without connections counts one more idle second; one     *)
(* idle for more than BUNDLE_DELAY_SECONDS is removed together with the  *)
(* uploadMap entries pointing to it.                                     *)
Idle == {t \in BundleTokens : bundles[t] # None /\ bUploads[bundles[t]] = {}}

\* mutant: the idle count is tested without being incremented
RemoveIdleBundlesNoTick ==
    /\ Idle # {}
    /\ LET expired == {t \in Idle : bDelay[bundles[t]] > BundleDelaySeconds}
           gone == {bundles[t] : t \in expired}
       IN /\ bundles' = [t \in BundleTokens |-> IF t \in expired THEN None ELSE bundles[t]]
          /\ uploadMap' = [u \in UploadTokens |->
                             IF uploadMap[u] \in gone THEN None ELSE uploadMap[u]]
    /\ UNCHANGED <<gen, bundleVars, live, pending, udp, commands, created>>

RemoveIdleBundles ==
    /\ Idle # {}
    /\ LET expired == {t \in Idle : bDelay[bundles[t]] + 1 > BundleDelaySeconds}
           gone == {bundles[t] : t \in expired}
       IN /\ bDelay' = [o \in Objs |->
                          IF \E t \in Idle : bundles[t] = o THEN bDelay[o] + 1 ELSE bDelay[o]]
          /\ bundles' = [t \in BundleTokens |-> IF t \in expired THEN None ELSE bundles[t]]
          /\ uploadMap' = [u \in UploadTokens |->
                             IF uploadMap[u] \in gone THEN None ELSE uploadMap[u]]
    /\ UNCHANGED <<gen, bUploads, bSingle, bSize, bSegments, live, pending, udp,
                   commands, created>>

-----------------------------------------------------------------------------
Init ==
    /\ bundles = [t \in BundleTokens |-> None]
    /\ gen = [t \in BundleTokens |-> 0]
    /\ bUploads = [o \in Objs |-> {}]
    /\ bDelay = [o \in Objs |-> 0]
    /\ bSingle = [o \in Objs |-> FALSE]
    /\ bSize = [o \in Objs |-> 0]
    /\ bSegments = [o \in Objs |-> 0]
    /\ uploadMap = [u \in UploadTokens |-> None]
    /\ live = {}
    /\ pending = [u \in UploadTokens |-> <<>>]
    /\ udp = None
    /\ commands = 0
    /\ created = 0

Percents == {0, 50, 100}
Downloaded == 0..MaxSize

Next ==
    \/ \E t \in BundleTokens, u \in UploadTokens, single \in BOOLEAN,
          size \in Sizes, dl \in Downloaded : CreateBundle(t, u, single, size, dl)
    \/ \E t \in BundleTokens, u \in UploadTokens : ChangeBundle(t, u)
    \/ \E t \in BundleTokens, mode \in {"MU", "SU", "SI"}, size \in Sizes,
          dl \in Downloaded : UpdateBundleInfo(t, mode, size, dl)
    \/ \E u \in UploadTokens : RemoveBundleConnection(u)
    \/ \E t \in BundleTokens, p \in Percents : OnUBN(t, p)
    \/ SaveUploadInfo
    \/ \E u \in UploadTokens : UploadCreated(u) \/ UploadRemoved(u) \/ RunCallback(u)
    \/ RemoveIdleBundles

(* The UDP thread finishes a started handler, every connection thread    *)
(* runs what was posted to it, and the Second timer keeps firing.        *)
Fairness ==
    /\ WF_vars(SaveUploadInfo)
    /\ \A u \in UploadTokens : WF_vars(RunCallback(u))
    /\ WF_vars(RemoveIdleBundles)

Spec == Init /\ [][Next]_vars /\ Fairness

-----------------------------------------------------------------------------
(* Properties *)

TypeOK ==
    /\ bundles \in [BundleTokens -> Objs \cup {None}]
    /\ gen \in [BundleTokens -> 0..MaxGen]
    /\ bUploads \in [Objs -> SUBSET UploadTokens]
    /\ bDelay \in [Objs -> 0..BundleDelaySeconds + 1]
    /\ bSingle \in [Objs -> BOOLEAN]
    /\ bSize \in [Objs -> 0..MaxSize]
    /\ bSegments \in [Objs -> 0..MaxSize]
    /\ uploadMap \in [UploadTokens -> Objs \cup {None}]
    /\ live \subseteq UploadTokens
    /\ \A u \in UploadTokens : \A i \in DOMAIN pending[u] :
          pending[u][i] \in {"add", "remove"} \X Objs
    /\ udp \in (UploadTokens \X Objs) \cup {None}

(* A connection belongs to at most one live bundle: when the downloader   *)
(* moves a connection to another bundle (UBD CH, or AD of a new bundle),  *)
(* addBundleConnection must take it out of the bundle that held it.       *)
UploadInOneBundle ==
    \A o1, o2 \in Alive : o1 # o2 => bUploads[o1] \cap bUploads[o2] = {}

(* uploadMap only points to bundles still in bundles: removeIdleBundles   *)
(* erases the entries of a removed bundle, and nothing may re-create one. *)
UploadMapTargetsAlive ==
    \A u \in UploadTokens : uploadMap[u] \in Alive \cup {None}

(* A bundle left without connections is eventually removed by the       *)
(* Second timer unless a connection is added to it again: delayTime      *)
(* counts up on each tick and is reset only by the first addUpload.      *)
IdleBundleExpires ==
    \A o \in Objs : (o \in Alive /\ bUploads[o] = {})
                      ~> (o \notin Alive \/ bUploads[o] # {})

(* The uploaded segments of a bundle never exceed its size (the           *)
(* constructor clamps them and setSingleUser checks; getSecondsLeft       *)
(* computes size - uploaded).                                              *)
SegmentsWithinSize == \A o \in Alive : bSegments[o] <= bSize[o]
=============================================================================
