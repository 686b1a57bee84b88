-------------------------- MODULE MCConversations --------------------------
(***************************************************************************)
(* The pages of the browser and the servers they use, for TLC.  They share *)
(* no state: a behaviour is one of one page, with the others at rest.      *)
(***************************************************************************)
EXTENDS ConversationPage, ViewingPage, ListingSearch, MessageReceipts
VARIABLE part

allVars == <<part, vars, viewingPageVars, searchVars, receiptVars>>

PagesInit ==
  /\ part \in {"CONVERSATION", "RECEIPTS", "VIEWING", "SEARCH"} /\ Init /\ ViewingPageInit /\ SearchInit /\ ReceiptsInit
  /\ part # "VIEWING" => controls = {"REVIEW"}
  /\ part # "SEARCH" => \A i \in Ids : listing[i].approved = 0 /\ listing[i].visible /\ \A p \in Prices : listing[i].price <= p

Conversing == part = "CONVERSATION" /\ Next /\ UNCHANGED <<part, viewingPageVars, searchVars, receiptVars>>
Viewing == part = "VIEWING" /\ ViewingPageNext /\ UNCHANGED <<part, vars, searchVars, receiptVars>>
Searching == part = "SEARCH" /\ SearchNext /\ UNCHANGED <<part, vars, viewingPageVars, receiptVars>>
Acknowledging == part = "RECEIPTS" /\ ReceiptsNext /\ UNCHANGED <<part, vars, viewingPageVars, searchVars>>

PagesNext == Conversing \/ Acknowledging \/ Viewing \/ Searching

PagesSpec == PagesInit /\ [][PagesNext]_allVars
=============================================================================
