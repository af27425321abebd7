---------------------------- MODULE MCRequestPath ----------------------------
(* RequestPath on small instances: Shared is the kinds that meet in the caches, *)
(* Every is all of them.                                                       *)
EXTENDS RequestPath, TLC

Shared == [route : {"chat", "messages"}, stream : {FALSE}, cacheable : {TRUE},
           overrides : {TRUE}, tenant : Tenants, prompt : Prompts]

Every == [route : {"chat", "messages", "responses"}, stream : BOOLEAN,
          cacheable : BOOLEAN, overrides : BOOLEAN, tenant : Tenants, prompt : Prompts]

RequestSymmetry ==
    Permutations(Requests) \cup Permutations(Models) \cup Permutations(Tenants)
      \cup Permutations(Prompts)
=============================================================================
