---------------------------- MODULE AstcEncoder ----------------------------
(***************************************************************************)
(* TextureLoader::encodeAll and encodeOne (src/src/TextureLoader.cpp) on   *)
(* top of AstcWorkerPool: images in order, the mips of an image in order,  *)
(* one run() of the pool per mip, a compression context shared by all      *)
(* images of a block size, and the teardown of pool and contexts.          *)
(*                                                                         *)
(* The encoder library is external.  A context it has compressed with must *)
(* be reset before the next image or mip: a call on one that was not       *)
(* returns success with blocks it never wrote ("spoiled" below).           *)
(***************************************************************************)
EXTENDS AstcWorkerPool

CONSTANTS
  NumImages,    \* images of the GLB
  MipCount,     \* mips of each image
  BlockOf       \* block size (context key) of each image

Image == 1..NumImages
Block == {BlockOf[i] : i \in Image}

ASSUME ImagesAssumption ==
  /\ NumImages \in Nat
  /\ MipCount \in [Image -> Nat \ {0}]

VARIABLES
  epc,       \* "image", "mip", "run", "reset", "teardown" or "returned"
  image,     \* i: the image encodeAll is at
  mip,       \* m: the mip encodeOne is at
  spoiled,   \* history: this image has a mip compressed in an unreset context
  context,   \* the AstcCtx of each block: "absent", "ready" or "used"
  out        \* out[i]: "none", "failed", "hit", "encoded" or "spoiled"

encVars == <<epc, image, mip, spoiled, context, out>>
vars == <<poolVars, encVars>>

Init ==
  /\ PoolInit
  /\ epc = "image" /\ image = 1 /\ mip = 0 /\ spoiled = FALSE
  /\ context = [b \in Block |-> "absent"]
  /\ out = [i \in Image |-> "none"]

More == epc = "image" /\ image \in Image

\* out[i] is settled; on to the next image.
NextImage(result) ==
  /\ out' = [out EXCEPT ![image] = result]
  /\ image' = image + 1
  /\ epc' = "image"
  /\ UNCHANGED mip

\* Unreadable bytes, a failed stbi_info or stbi_load, or a cache hit.
SkipImage ==
  /\ More
  /\ \E result \in {"failed", "hit"} : NextImage(result)
  /\ UNCHANGED <<poolVars, spoiled, context>>

\* AstcCtxCache::get: the context of this block size, built on first use ...
GetContext ==
  /\ More
  /\ context' = IF context[BlockOf[image]] = "absent"
                THEN [context EXCEPT ![BlockOf[image]] = "ready"]
                ELSE context
  /\ epc' = "mip" /\ mip' = 0 /\ spoiled' = FALSE
  /\ UNCHANGED <<poolVars, image, out>>

\* ... unless the library cannot build it.
ContextUnavailable ==
  /\ More
  /\ context[BlockOf[image]] = "absent"
  /\ NextImage("failed")
  /\ UNCHANGED <<poolVars, spoiled, context>>

\* pool.run for mip m.
EncodeMip ==
  /\ epc = "mip"
  /\ RunDispatches
  /\ spoiled' = (spoiled \/ context[BlockOf[image]] = "used")
  /\ epc' = "run"
  /\ UNCHANGED <<image, mip, context, out>>

\* The library leaves its mark on the context, unless every call was refused.
Touched ==
  IF \E t \in Participant : code[t] = 0
  THEN [context EXCEPT ![BlockOf[image]] = "used"]
  ELSE context

\* run() is back: an error fails the image, success goes on to the reset.
MipReturns ==
  /\ epc = "run"
  /\ CallerProceeds
  /\ context' = Touched
  /\ IF ret # 0
     THEN NextImage("failed")
     ELSE epc' = "reset" /\ UNCHANGED <<image, mip, out>>
  /\ UNCHANGED spoiled

LastMip == mip + 1 = MipCount[image]

\* The reset left for the last mip only.
ResetAfterLastMip ==
  /\ epc = "reset"
  /\ context' = IF LastMip THEN [context EXCEPT ![BlockOf[image]] = "ready"]
                           ELSE context
  /\ IF LastMip
     THEN NextImage(IF spoiled THEN "spoiled" ELSE "encoded")
     ELSE epc' = "mip" /\ mip' = mip + 1 /\ UNCHANGED <<image, out>>
  /\ UNCHANGED <<poolVars, spoiled>>

\* astcenc_compress_reset succeeds: the next mip, or packMrtc after the last.
ResetContext ==
  /\ epc = "reset"
  /\ context' = [context EXCEPT ![BlockOf[image]] = "ready"]
  /\ IF LastMip
     THEN NextImage(IF spoiled THEN "spoiled" ELSE "encoded")
     ELSE epc' = "mip" /\ mip' = mip + 1 /\ UNCHANGED <<image, out>>
  /\ UNCHANGED <<poolVars, spoiled>>

\* astcenc_compress_reset fails: the image fails, the context stays used.
ResetFails ==
  /\ epc = "reset"
  /\ NextImage("failed")
  /\ UNCHANGED <<poolVars, spoiled, context>>

\* encodeAll returns: astcPool goes first (declared after ctxCache) ...
TeardownPool ==
  /\ epc = "image" /\ image \notin Image
  /\ DestructorStops
  /\ epc' = "teardown"
  /\ UNCHANGED <<image, mip, spoiled, context, out>>

\* ... then ~AstcCtxCache frees the contexts.
FreeContexts ==
  /\ epc = "teardown"
  /\ cpc = "destroyed"
  /\ context' = [b \in Block |-> "absent"]
  /\ epc' = "returned"
  /\ UNCHANGED <<poolVars, image, mip, spoiled, out>>

\* What the pool does by itself meanwhile.
PoolStep ==
  /\ \/ \E t \in PoolThread :
          \/ WorkerStep(t)
          \/ WorkerWakesSpuriously(t)
          \/ \E e \in Code : WorkerCallReturns(t, e)
     \/ \E e \in Code : RunCallReturns(e)
     \/ RunStep
     \/ RunWakesSpuriously
  /\ UNCHANGED encVars

EncoderStep ==
  \/ SkipImage
  \/ GetContext
  \/ ContextUnavailable
  \/ EncodeMip
  \/ MipReturns
  \/ ResetContext
  \/ ResetFails
  \/ TeardownPool
  \/ FreeContexts

Returned == epc = "returned" /\ UNCHANGED vars

Next == PoolStep \/ EncoderStep \/ Returned

Fairness ==
  /\ \A t \in PoolThread : SF_vars(WorkerStep(t) /\ UNCHANGED encVars)
  /\ SF_vars(RunStep /\ UNCHANGED encVars)
  /\ \A t \in Participant : WF_vars(CallReturns(t) /\ UNCHANGED encVars)
  /\ SF_vars(EncoderStep)

Spec == Init /\ [][Next]_vars
FairSpec == Spec /\ Fairness

-----------------------------------------------------------------------------
(* Properties.                                                             *)

\* A participant is inside astcenc_compress_image (:538) only while encodeOne
\* waits for that very mip and the context exists: no reset (:552), no next
\* image and no astcenc_context_free (:471) overlaps a compression.
ContextInUse ==
  \A t \in PoolThread : pc[t] = "call" =>
     /\ epc = "run"
     /\ taken[t] = runs
     /\ context[BlockOf[image]] # "absent"

\* Blocks come out of a context that was not reset (:478-480) only behind an
\* image of the same block size that failed: an error leaves the loop before the
\* reset (:542-548), and the context goes to the next image as it is.
OnlyFailureSpoils ==
  \A i \in Image : out[i] = "spoiled" =>
     \E j \in 1..(i - 1) : BlockOf[j] = BlockOf[i] /\ out[j] = "failed"

\* encodeAll returns, whatever fails on the way and although the encoder may
\* wait for all of its participants.
EncodeAllReturns == <>(epc = "returned")
=============================================================================
