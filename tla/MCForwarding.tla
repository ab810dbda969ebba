---------------------------- MODULE MCForwarding ----------------------------
(***************************************************************************)
(* Instances of Forwarding: a request for each gate, and sound ones.       *)
(***************************************************************************)
EXTENDS Forwarding, TLC

R(p, f, b, s) == [path |-> p, framing |-> f, payload |-> b, stream |-> s]

Streamed == {R("proxied", "sound", "sound", TRUE)}
AllKinds == Streamed \cup
  {R("proxied", "sound", "sound", FALSE), R("other", "sound", "sound", FALSE),
   R("proxied", "big", "sound", FALSE), R("proxied", "sound", "invalid", TRUE)}
=============================================================================
