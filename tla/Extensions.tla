----------------------------- MODULE Extensions -----------------------------
(***************************************************************************)
(* The bundled extensions and the parts of core around them, each a module *)
(* of its own.  They share no state that is modelled: a behaviour is one   *)
(* of one part, which Init picks, and the others stay as they began.       *)
(***************************************************************************)
EXTENDS Naturals

CONSTANTS
    None,
    N, Handlers, Registered, First, MaxMishaps,
    Pictures, Toggles, MaxFavFaults,
    Saves, Forms, Captures, MaxBoothFaults,
    Prints, Shop, OwnerOf, MaxPrints,
    Keys, Unknown, Alters, MaxLaunches,
    Submits, Choices, Edits, Odd, MaxEdits,
    Elements, Newcomers, PerPages, All, DefaultPerPage, GalleryPerPage, MaxPerPage,
    Prompts, SeedFields,
    Users, Root, MaxPolicyEdits, MaxCodes

VARIABLES
    part,
    batch, document, item, step, at, jobs, live, hook, mishaps,
    started, announced, again, early, slipped,
    kept, delta, star, toggle, favPhase, listed, dangling, favFaults, crossed, adrift,
    booked, column, settings, saving, filtering, filtered, boothUp, boothFaults,
    wished, mixed, behind,
    serves, engine, pictures, temps, printing, asked, deleted,
    stage, decls, enabled, order, turn, initd, columns, recorded, launches, why, torn,
    file, running, submit, project, edits, owned, overlapped, spoilt,
    rows, opts, counting, total, shown, before, gone, slid,
    prompt, seeds, variants, refused,
    policy, launched, enforcer, pageCode, coreCode, claim, policyEdits

\* The batch, the favorites, the printer and the wizard are taken with their theorems.
TheBatch == INSTANCE BatchProofs
TheFavorites == INSTANCE FavoritesProofs
Booth == INSTANCE Photobooth
ThePrinter == INSTANCE PrinterProofs
Boot == INSTANCE Startup
TheWizard == INSTANCE OnboardingProofs
Pages == INSTANCE Listing
TheVariants == INSTANCE Variants
Authz == INSTANCE Authorization

\* What their theorems ask of the constants.
ASSUME BatchAssumption == TheBatch!BatchConstants
ASSUME FavoritesAssumption == TheFavorites!FavoritesConstants
ASSUME WizardAssumption == TheWizard!Distinct
ASSUME BoothAssumption == MaxBoothFaults \in Nat
ASSUME PrinterAssumption == ThePrinter!Apart
ASSUME StartupAssumption == Boot!StartupConstants
ASSUME ListingAssumption == Pages!ListingConstants
ASSUME VariantsAssumption == TheVariants!VariantsConstants
ASSUME AuthorizationAssumption == Authz!Distinct

Parts == {"batch", "favorites", "photobooth", "printer", "startup", "wizard", "listing", "variants",
          "authorization"}

batchVars == <<batch, document, item, step, at, jobs, live, hook, mishaps,
              started, announced, again, early, slipped>>
favoritesVars == <<kept, delta, star, toggle, favPhase, listed, dangling, favFaults, crossed, adrift>>
photoboothVars == <<booked, column, settings, saving, filtering, filtered, boothUp, boothFaults,
                   wished, mixed, behind>>
printerVars == <<serves, engine, pictures, temps, printing, asked, deleted>>
startupVars == <<stage, decls, enabled, order, turn, initd, columns, recorded, launches, why, torn>>
wizardVars == <<file, running, submit, project, edits, owned, overlapped, spoilt>>
listingVars == <<rows, opts, counting, total, shown, before, gone, slid>>
variantsVars == <<prompt, seeds, variants, refused>>
authzVars == <<policy, launched, enforcer, pageCode, coreCode, claim, policyEdits>>
allVars == <<part, batchVars, favoritesVars, photoboothVars, printerVars,
             startupVars, wizardVars, listingVars, variantsVars, authzVars>>

TypeOK ==
    /\ part \in Parts
    /\ TheBatch!TypeOK /\ TheFavorites!TypeOK /\ Booth!TypeOK /\ ThePrinter!TypeOK
    /\ Boot!TypeOK /\ TheWizard!TypeOK /\ Pages!TypeOK /\ Authz!TypeOK

Init ==
    /\ part \in Parts
    /\ TheBatch!Init /\ TheFavorites!Init /\ Booth!Init /\ ThePrinter!Init
    /\ Boot!Init /\ TheWizard!Init /\ Pages!Init /\ TheVariants!Init
    /\ Authz!Init

Next ==
    \/ /\ part = "batch" /\ TheBatch!Next
       /\ UNCHANGED <<part, favoritesVars, photoboothVars, printerVars, startupVars,
                      wizardVars, listingVars, variantsVars, authzVars>>
    \/ /\ part = "favorites" /\ TheFavorites!Next
       /\ UNCHANGED <<part, batchVars, photoboothVars, printerVars, startupVars,
                      wizardVars, listingVars, variantsVars, authzVars>>
    \/ /\ part = "photobooth" /\ Booth!Next
       /\ UNCHANGED <<part, batchVars, favoritesVars, printerVars, startupVars,
                      wizardVars, listingVars, variantsVars, authzVars>>
    \/ /\ part = "printer" /\ ThePrinter!Next
       /\ UNCHANGED <<part, batchVars, favoritesVars, photoboothVars, startupVars,
                      wizardVars, listingVars, variantsVars, authzVars>>
    \/ /\ part = "startup" /\ Boot!Next
       /\ UNCHANGED <<part, batchVars, favoritesVars, photoboothVars, printerVars,
                      wizardVars, listingVars, variantsVars, authzVars>>
    \/ /\ part = "wizard" /\ TheWizard!Next
       /\ UNCHANGED <<part, batchVars, favoritesVars, photoboothVars, printerVars,
                      startupVars, listingVars, variantsVars, authzVars>>
    \/ /\ part = "listing" /\ Pages!Next
       /\ UNCHANGED <<part, batchVars, favoritesVars, photoboothVars, printerVars,
                      startupVars, wizardVars, variantsVars, authzVars>>
    \/ /\ part = "variants" /\ TheVariants!Next
       /\ UNCHANGED <<part, batchVars, favoritesVars, photoboothVars, printerVars,
                      startupVars, wizardVars, listingVars, authzVars>>
    \/ /\ part = "authorization" /\ Authz!Next
       /\ UNCHANGED <<part, batchVars, favoritesVars, photoboothVars, printerVars,
                      startupVars, wizardVars, listingVars, variantsVars>>

Spec == Init /\ [][Next]_allVars

-----------------------------------------------------------------------------
(* What the run checks of each part: its module's properties. *)

\* Batch: at most one job of a batch at a time (batch.go, CreateBatchFromVariants).
Sequential == TheBatch!Sequential
\* Batch: items start in the order of their positions (batch.go, nextPendingItem).
StartedInOrder == TheBatch!StartedInOrder
\* Batch: a completed batch has no item waiting (hooks.go, HandleJobTerminal).
CompletedMeansNoneWaiting == TheBatch!CompletedMeansNoneWaiting
\* Favorites: a star is shown if and only if it is stored (favorites.go, ToggleFavorite and Sync).
StarsMatchDeltas == TheFavorites!StarsMatchDeltas
\* Favorites: a sync loses no favorite of an element (favorites.go, syncFromS3).
SyncKeepsFavorites == TheFavorites!SyncKeepsFavorites
\* Photobooth: each field is as last submitted (photobooth_saver.go, saveProjectSettings).
SettingsAsSubmitted == Booth!SettingsAsSubmitted
\* Photobooth: captures are filtered by the stored prompt (post_filter.go).
FilteredAsStored == Booth!FilteredAsStored
\* Printer: no temporary file outlives its request (printer/handlers.go, imageproc.go).
NoTempLeft == ThePrinter!NoTempLeft
\* Printer: printing and previewing remove no stored picture (storage LocalFile).
StoredPicturesStay == ThePrinter!StoredPicturesStay
\* Start-up: required dependencies are initialized first (extdep.go, Order).
DependencyFirst == Boot!DependencyFirst
\* Start-up: it fails on an order never, on a migration only after a torn one.
StartsUnlessTorn == Boot!StartsUnlessTorn
\* Wizard: what it does not know in config.yaml survives it (configwrite.go).
OwnersSectionsKept == TheWizard!OwnersSectionsKept
\* Wizard: what it leaves loads at the next start (routes.go, config.go).
WizardFilesLoad == TheWizard!WizardFilesLoad
\* Listing: going through all pages shows every element (repository.go, element_repo.go).
WalkMissesNone == Pages!WalkMissesNone
\* Variants: a batch has every combination once (expand.go).
EveryCombinationOnce == TheVariants!EveryCombinationOnce
\* Authorization: a running server serves root and nobody else (static_enforcer.go).
OwnerServed == Authz!OwnerServed
=============================================================================
