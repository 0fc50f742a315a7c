-------------------------- MODULE MCPaymentGateway --------------------------
\* Values for TLC: request bodies that differ in what the code does with them,
\* and interchangeable requests.
EXTENDS PaymentGateway, TLC

CONSTANT Other      \* another service

ContractBodies == {<<"pro", "trial">>}

RegistrationBodies == {<<AI, "pro", "other">>, <<Other, "starter", "cancelled">>}

Symmetry == Permutations(Requests)
=============================================================================
