------------------------------ MODULE Platform ------------------------------
(* The components around the pipeline, which share no state with each       *)
(* other or with it: the planning of RSS runs (RssScheduling), the scrape   *)
(* before it (Catalogue), and the API's rate limiter (RateLimit), accounts  *)
(* and schema (Accounts) and requests on channels (Ownership).  They run    *)
(* beside each other, in any order.                                         *)
EXTENDS RssScheduling, Catalogue, RateLimit, Accounts, Ownership

platformVars == <<vars, catalogueVars, limiterVars, accountVars, ownershipVars>>

PlatformInit ==
  Init /\ CatalogueInit /\ LimiterInit /\ AccountsInit /\ OwnershipInit

PlanningStep == /\ Next
                /\ UNCHANGED <<catalogueVars, limiterVars, accountVars, ownershipVars>>

ScrapeStep == /\ CatalogueNext
              /\ UNCHANGED <<vars, limiterVars, accountVars, ownershipVars>>

LimiterStep == /\ LimiterNext
               /\ UNCHANGED <<vars, catalogueVars, accountVars, ownershipVars>>

AccountsStep == /\ AccountsNext
                /\ UNCHANGED <<vars, catalogueVars, limiterVars, ownershipVars>>

ChannelsStep == /\ OwnershipNext
                /\ UNCHANGED <<vars, catalogueVars, limiterVars, accountVars>>

PlatformNext == \/ PlanningStep
                \/ ScrapeStep
                \/ LimiterStep
                \/ AccountsStep
                \/ ChannelsStep

PlatformSpec == PlatformInit /\ [][PlatformNext]_platformVars
-----------------------------------------------------------------------------
(* Whatever the components have done beside each other, the rows of the     *)
(* planning and its planners, the scrapes, the buckets of the limiter, the  *)
(* tables with their registrations and the requests have their types.       *)
PlatformTypes == TypeOK /\ CatalogueTypeOK /\ LimiterTypeOK /\ AccountsTypeOK /\ OwnershipTypeOK
=============================================================================
