---------------------------- MODULE MCSshSession ----------------------------
(* SshSession with one output stream. *)
EXTENDS SshSession

Streams == {"stdout"}
=============================================================================
