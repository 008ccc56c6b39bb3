---------------------------- MODULE RequestInputs ----------------------------
(***************************************************************************)
(* RequestGates together with the inputs of the algorithms its requests    *)
(* run: the tokenizer, the two answers to a body and the membership of a   *)
(* network.  Each input is an initial state of its own; the system runs    *)
(* where there is none.                                                    *)
(***************************************************************************)
EXTENDS RequestGates

VARIABLE input

NoInput == [kind |-> "none"]

Inputs == [kind: {"body"}, text: Texts, words: WordLists] \union [kind: {"network"}, spec: Specs]

InputInit == Init /\ input \in {NoInput} \union Inputs

InputNext == input = NoInput /\ Next /\ UNCHANGED input

InputSpec == InputInit /\ [][InputNext]_<<vars, input>>

(***************************************************************************)
(* F06a and F09a, of every text: the tokenizer finds what the reference    *)
(* finds, whatever the punctuation and the width of the characters.        *)
(***************************************************************************)
TokensFollowReference == input.kind = "body" => TokensMatch(input.text)

(***************************************************************************)
(* F06, F06a and F06b, of every text and list of words: /spellcheck and    *)
(* /spellcheck/positions tell of the same misspelled words.                *)
(***************************************************************************)
EndpointsAgree == input.kind = "body" => EndpointsMatch(input.text, input.words)

(***************************************************************************)
(* F15e and F15f, of every configured network: contains() is membership,   *)
(* for an address in either of its writings.                               *)
(***************************************************************************)
CidrMatchesPrefix == input.kind = "network" => PrefixMatches(input.spec)
=============================================================================
