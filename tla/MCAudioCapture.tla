----------------------------- MODULE MCAudioCapture -----------------------------
(* AudioCapture with a ring of two frames instead of twenty, an alert of two *)
(* chunks and a microphone that delivers a few more frames than the ring     *)
(* holds, so that it wraps around.                                           *)
EXTENDS AudioCapture
================================================================================
