----------------------------- MODULE TrackContent -----------------------------
(***************************************************************************)
(* What may happen to the contents of a disk's tracks, whatever the reason *)
(* for it: a track gets new content, or two tracks exchange theirs.        *)
(* DedupWrite does no more than this to its tracks, and the hash index     *)
(* (HashTable) has to follow whatever this does.                           *)
(***************************************************************************)

CONSTANTS
  Tracks,
  Hashes,   (* hashes of content                                           *)
  NoHash    (* "", the hash of a track never written                       *)

VARIABLE content

ContentTypeOK == content \in [Tracks -> Hashes \cup {NoHash}]

ContentInit == content = [p \in Tracks |-> NoHash]

Write(p, h) == content' = [content EXCEPT ![p] = h]

Swap(p, q) == content' = [content EXCEPT ![p] = content[q], ![q] = content[p]]

ContentNext == \/ \E p \in Tracks, h \in Hashes : Write(p, h)
               \/ \E p, q \in Tracks : p # q /\ Swap(p, q)

ContentSpec == ContentInit /\ [][ContentNext]_content
=============================================================================
