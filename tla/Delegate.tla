------------------------------ MODULE Delegate ------------------------------
(* Nuclex::Support::Events::Delegate: an instance pointer and the wrapper   *)
(* that calls a free function or a method on it                             *)
(* (Include/Nuclex/Support/Events/Delegate.h).                              *)
CONSTANTS NoInstance

CallEmptyDelegate == "callEmptyDelegate"

(* Create() and Reset() for a free function, for a method, and without any  *)
(* target. The last one leaves the instance pointer as it was.              *)
FreeFunction(function) == [instance |-> NoInstance, method |-> function]
ObjectMethod(instance, method) == [instance |-> instance, method |-> method]
Reset(delegate) == [delegate EXCEPT !.method = CallEmptyDelegate]

HasTarget(delegate) == delegate.method # CallEmptyDelegate

(* Empty delegates are alike, whatever instance they once pointed to. *)
Equal(one, other) ==
  IF HasTarget(one) /\ HasTarget(other)
  THEN one.instance = other.instance /\ one.method = other.method
  ELSE ~HasTarget(one) /\ ~HasTarget(other)
=============================================================================
