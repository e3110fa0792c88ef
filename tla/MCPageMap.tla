------------------------------- MODULE MCPageMap -------------------------------
(* Two user page directory entries, three user addresses, one of them in a page *)
(* table of its own.                                                            *)
EXTENDS PageMap

MCVAs == {<<0, 0>>, <<0, 1>>, <<1, 0>>}
=============================================================================
