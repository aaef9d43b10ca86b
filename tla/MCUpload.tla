------------------------------ MODULE MCUpload ------------------------------
(***************************************************************************)
(* Instances of Upload for TLC: the blobs of a train are its image and its *)
(* clip (the thumbnail is treated like the image).                         *)
(***************************************************************************)
EXTENDS Upload

MCKinds == <<"image", "clip">>
=============================================================================
