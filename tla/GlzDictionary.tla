--------------------------- MODULE GlzDictionary ---------------------------
(***************************************************************************)
(* The global LZ dictionary (glz-encoder-dict.c, image-encoders.cpp): a      *)
(* window over the images last sent to a client, which the encoders of its   *)
(* display channels share.  An encoder may refer to the pixels of any image  *)
(* from its own head of the window up to the image it encodes; the pixels    *)
(* lie in the guest's memory, so the drawable of an image is held while it   *)
(* is in the window, and is given back by the thread that owns it.           *)
(*                                                                         *)
(* Each encoder runs in the thread of its worker.  pre_encode and            *)
(* post_encode lock the dictionary, the encoding between them does not; the   *)
(* functions that release drawables at will take the lock that excludes any  *)
(* encoding.                                                                *)
(***************************************************************************)
EXTENDS Integers, Sequences, FiniteSets, SequencesExt, FiniteSetsExt

CONSTANTS Encoders,     \* one per display channel of the client
          WindowSize,   \* window.size_limit, in pixels
          ImageSizes,
          MaxImages     \* bound on the images encoded

VARIABLES glz,          \* the dictionary, see GlzInit
          image,        \* every image encoded so far, by its id
          encoding,     \* per encoder, the image it encodes, or NoImage
          glzWire,      \* per channel, the images under way to the client
          kept,         \* the images in the client's window
          gap           \* the first image the client has not decoded

glzVars == <<glz, image, encoding, glzWire, kept, gap>>

NoImage == -1

GlzInit ==
    /\ glz = [window |-> <<>>,                          \* used_images, oldest first
              heads |-> [e \in Encoders |-> NoImage],   \* encoders_heads
              last |-> 0, frozen |-> FALSE,
              users |-> Encoders]                       \* refs of GlzSharedDictionary
    /\ image = [i \in {} |-> 0]
    /\ encoding = [e \in Encoders |-> NoImage]
    /\ glzWire = [e \in Encoders |-> <<>>]
    /\ kept = {} /\ gap = 0

-----------------------------------------------------------------------------
(* The window. *)

WindowPixels(w) == FoldSeq(LAMBDA i, n : image[i].size + n, 0, w)

\* glz_dictionary_window_get_new_head: how many images the new one pushes out
RECURSIVE PushedOut(_, _)
PushedOut(w, size) ==
    IF w = <<>> \/ WindowPixels(w) + size <= WindowSize THEN 0 ELSE 1 + PushedOut(Tail(w), size)

InUse == \E e \in Encoders : glz.heads[e] # NoImage

\* glz_dictionary_window_remove_head with glz_usr_free_image: the images leave
\* the window; the encoder's own drawables are released, those of the others
\* are put on their to_free lists
FreeImage(e, r) == IF ~r.alive THEN r
                   ELSE [r EXCEPT !.alive = FALSE, !.held = IF r.owner = e THEN "no" ELSE "to_free"]

RemoveHead(e, images, out) == [i \in DOMAIN images |-> IF i \in out THEN FreeImage(e, images[i]) ELSE images[i]]

\* REF_SEG_IS_VALID
RefValid(r, head) == image[r].alive /\ r >= head

\* glz_dictionary_pre_encode, from image_encoders_compress_glz.  What the
\* encoder may refer to is fixed from here on.
PreEncode(e, size) ==
    LET i == glz.last
        n == PushedOut(glz.window, size)
        out == IF InUse THEN {} ELSE {glz.window[k] : k \in 1 .. n}
        rest == SubSeq(glz.window, n + 1, Len(glz.window))
        head == IF rest = <<>> THEN i ELSE rest[1]
        after == RemoveHead(e, image, out)
    IN  /\ i < MaxImages /\ size < WindowSize
        /\ e \in glz.users /\ encoding[e] = NoImage /\ ~glz.frozen
        /\ glz' = [glz EXCEPT !.window = Append(IF InUse THEN @ ELSE rest, i),
                              !.heads[e] = head, !.last = @ + 1]
        /\ image' = [k \in DOMAIN image \cup {i} |->
                        IF k # i THEN after[k]
                        ELSE [owner |-> e, size |-> size, alive |-> TRUE, held |-> "yes", head |-> head,
                              refs |-> {r \in ToSet(glz.window) \ out : RefValid(r, head)}]]
        /\ encoding' = [encoding EXCEPT ![e] = i]
        /\ UNCHANGED <<glzWire, kept, gap>>

UnusedAtOnce(e) == {i \in ToSet(glz.window) : i < encoding[e]}

\* the images before the earliest head of the other encoders, if this one's is
\* earlier
Unused(e) ==
    LET others == {glz.heads[f] : f \in Encoders \ {e}} \ {NoImage}
    IN  IF others = {} THEN {} ELSE {i \in ToSet(glz.window) : i < Min(others)}

\* glz_dictionary_post_encode; the message is sent
PostEncode(e) ==
    /\ encoding[e] # NoImage
    /\ image' = RemoveHead(e, image, Unused(e))
    /\ glz' = [glz EXCEPT !.window = SelectSeq(@, LAMBDA i : i \notin Unused(e)), !.heads[e] = NoImage]
    /\ glzWire' = [glzWire EXCEPT ![e] = Append(@, encoding[e])]
    /\ encoding' = [encoding EXCEPT ![e] = NoImage]
    /\ UNCHANGED <<kept, gap>>

-----------------------------------------------------------------------------
(* Drawables. *)

NoEncoding == \A e \in Encoders : encoding[e] = NoImage

\* red_glz_drawable_free: an image that is still in the window is killed there
GlzDrawableFree(images, S) ==
    [i \in DOMAIN images |-> IF i \in S THEN [images[i] EXCEPT !.alive = FALSE, !.held = "no"] ELSE images[i]]

HeldBy(e) == {i \in DOMAIN image : image[i].owner = e /\ image[i].held # "no"}

\* image_encoders_free_some_independent_glz_drawables, glz_retention_free_drawables
FreeSomeDrawable(e, i) ==
    /\ NoEncoding /\ i \in HeldBy(e)
    /\ image' = GlzDrawableFree(image, {i})
    /\ UNCHANGED <<glz, encoding, glzWire, kept, gap>>

\* image_encoders_free_glz_drawables (worker stop, destroy_surfaces)
FreeGlzDrawables(e) ==
    /\ NoEncoding /\ HeldBy(e) # {}
    /\ image' = GlzDrawableFree(image, HeldBy(e))
    /\ UNCHANGED <<glz, encoding, glzWire, kept, gap>>

\* image_encoders_free_glz_drawables_to_free, in every turn of the owner's loop
FreeDrawablesToFree(e) ==
    LET S == {i \in HeldBy(e) : image[i].held = "to_free"}
    IN  /\ encoding[e] = NoImage /\ S # {}
        /\ image' = [i \in DOMAIN image |-> IF i \in S THEN [image[i] EXCEPT !.held = "no"] ELSE image[i]]
        /\ UNCHANGED <<glz, encoding, glzWire, kept, gap>>

\* image_encoders_freeze_glz
FreezeGlz ==
    /\ NoEncoding /\ ~glz.frozen
    /\ glz' = [glz EXCEPT !.frozen = TRUE]
    /\ UNCHANGED <<image, encoding, glzWire, kept, gap>>

\* image_encoders_release_glz, of a channel whose messages have arrived
ReleaseGlz(e) ==
    /\ NoEncoding /\ e \in glz.users /\ glzWire[e] = <<>>
    /\ image' = GlzDrawableFree(image, HeldBy(e))
    /\ glz' = [glz EXCEPT !.users = @ \ {e},
                          !.window = IF glz.users = {e} THEN <<>> ELSE @]
    /\ UNCHANGED <<encoding, glzWire, kept, gap>>

-----------------------------------------------------------------------------
(* The client waits for what an image refers to; once all images up to one    *)
(* have come it drops those before that one's head.                           *)

Decodable(e) == glzWire[e] # <<>> /\ image[glzWire[e][1]].refs \subseteq kept

ClientDecodes(e) ==
    LET have == kept \cup {glzWire[e][1]}
        next == Min({i \in gap .. glz.last : i \notin have})
    IN  /\ Decodable(e)
        /\ gap' = next
        /\ kept' = IF next = 0 THEN have ELSE {i \in have : i >= image[next - 1].head}
        /\ glzWire' = [glzWire EXCEPT ![e] = Tail(@)]
        /\ UNCHANGED <<glz, image, encoding>>

GlzNext ==
    \/ \E e \in Encoders, size \in ImageSizes : PreEncode(e, size)
    \/ \E e \in Encoders : PostEncode(e) \/ FreeGlzDrawables(e) \/ FreeDrawablesToFree(e)
                           \/ ReleaseGlz(e) \/ ClientDecodes(e)
    \/ \E e \in Encoders, i \in 0 .. MaxImages : FreeSomeDrawable(e, i)
    \/ FreezeGlz

GlzSpec == GlzInit /\ [][GlzNext]_glzVars

-----------------------------------------------------------------------------
\* While an image is encoded, every image it may refer to is in the window and
\* its drawable is held, so the encoder never reads memory the guest has got
\* back (glz_dictionary_window_remove_head while another thread encodes), and
\* an image that left the window is not alive (glz_enc_dictionary_remove_image).
GlzReferencesHeld ==
    /\ \A e \in Encoders : encoding[e] # NoImage =>
          \A r \in image[encoding[e]].refs \cup {encoding[e]} :
              r \in ToSet(glz.window) /\ image[r].alive /\ image[r].held = "yes"
    /\ \A i \in DOMAIN image : image[i].alive => i \in ToSet(glz.window) /\ image[i].held = "yes"

\* The client can decode what it gets: whatever an image under way refers to is
\* in the client's window or will come, and when nothing is being encoded one of
\* the channels can go on (the head distance sent with each image and the shared
\* window agree).
GlzClientDecodes ==
    LET coming == UNION {ToSet(glzWire[e]) : e \in Encoders} \cup {encoding[e] : e \in Encoders}
    IN  /\ \A e \in Encoders : \A i \in ToSet(glzWire[e]) : image[i].refs \subseteq kept \cup coming
        /\ NoEncoding /\ (\E e \in Encoders : glzWire[e] # <<>>) => \E e \in Encoders : Decodable(e)

\* The window of the encoders and the client's agree: an encoder refers only to
\* images whose memory is held, and the client decodes all it is sent.
GlzWindowsAgree == GlzReferencesHeld /\ GlzClientDecodes
=============================================================================
