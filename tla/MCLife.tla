------------------------------- MODULE MCLife -------------------------------
(* Small values for LifeProps. *)
EXTENDS LifeProps

Writers == Stack \X {"own", "hup"}
Nobody  == <<"nobody", "own">>

Conf(found, lock, keyNum, keys) ==
    [found |-> found, lock |-> lock, keyNum |-> keyNum, keys |-> keys]

(* A good file; one that lacks a setting; one that lacks a request key and turns the
   server's mutexes off.                                                     *)
SomeConfs == {Conf(Required, "on", 0, 0), Conf(Required \ {"ServerPort"}, "on", 0, 0),
              Conf(Required, "off", 2, 1), Conf(Required, "off", 1, 1)}
=============================================================================
