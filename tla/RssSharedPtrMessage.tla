------------------------ MODULE RssSharedPtrMessage ------------------------
(***************************************************************************)
(* The reference-counted payload of rss_core_protocol.cpp.  Several        *)
(* RssSharedPtrMessage objects may point to one RssSharedPtr block; the    *)
(* block counts the objects beyond the first one in shared_count and is    *)
(* deleted by the destructor of the object that finds the count at 0.      *)
(*                                                                         *)
(* A block is a record of a table indexed by the identities of payloads.   *)
(* alive says that the block is allocated.  A block that is not alive must *)
(* not be touched: what the operators return for it is irrelevant, and     *)
(* the users of this module show that they never do that.                  *)
(***************************************************************************)
EXTENDS Integers

SharedPtr == [alive : BOOLEAN, shared_count : Nat]

\* RssSharedPtr(): nothing shares the block yet.
unallocated == [alive |-> FALSE, shared_count |-> 0]

(* initialize(): the first object takes the payload into a new block.      *)
initialize(ptrs, p) ==
  [ptrs EXCEPT ![p] = [alive |-> TRUE, shared_count |-> 0]]

\* Faulty variant: copy() forgets shared_count++.
copies_uncounted(ptrs, p, n) == ptrs

(* n calls of copy() on an object of payload p.                            *)
copies(ptrs, p, n) ==
  [ptrs EXCEPT ![p] = [alive |-> @.alive, shared_count |-> @.shared_count + n]]

(* One call of copy() on an object of each payload in the set S.           *)
copyEach(ptrs, S) ==
  [p \in DOMAIN ptrs |->
     IF p \in S
       THEN [alive |-> ptrs[p].alive, shared_count |-> ptrs[p].shared_count + 1]
       ELSE ptrs[p]]

\* Faulty variant: the destructor does not test for the last object.
destroyed_untested(b) == [alive |-> b.alive, shared_count |-> b.shared_count - 1]

\* The block after the destructor of one of its objects.
destroyed(b) ==
  IF b.shared_count = 0
    THEN unallocated
    ELSE [alive |-> b.alive, shared_count |-> b.shared_count - 1]

(* ~RssSharedPtrMessage() of one object for each payload in the set S.     *)
destroy(ptrs, S) ==
  [p \in DOMAIN ptrs |-> IF p \in S THEN destroyed(ptrs[p]) ELSE ptrs[p]]
=============================================================================
