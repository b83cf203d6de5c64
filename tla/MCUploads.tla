------------------------------ MODULE MCUploads ------------------------------
(* Uploads with model values for attachments, messages and PATCHes. *)
EXTENDS Uploads
=============================================================================
