---------------------------- MODULE ScreenCommon ----------------------------
(***************************************************************************)
(* What the modules of the screens share, so that Screens can extend them  *)
(* all: nothing there, and a balance that has never been read.             *)
(***************************************************************************)
CONSTANTS None, Unread
=============================================================================
