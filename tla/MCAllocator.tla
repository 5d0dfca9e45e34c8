---------------------------- MODULE MCAllocator ----------------------------
(* One unit; three; too much for its header in the first block; a mapping.*)
EXTENDS Allocator

TheRequests == {5, 24, 104, 128}
=============================================================================
