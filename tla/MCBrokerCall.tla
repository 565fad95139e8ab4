---------------------------- MODULE MCBrokerCall ----------------------------
(***************************************************************************)
(* An instance of BrokerCall for TLC: two callers, every mutation, and the *)
(* reads they meet in the group of the orders and outside it.              *)
(***************************************************************************)
EXTENDS BrokerCall

CONSTANTS c1, c2

MCRequests == {OrdersPlace(TRUE), OrdersPlace(FALSE), OrdersCancel, OrdersReconcile,
               OrdersGet, OrdersList, Handshake}
=============================================================================
