---------------------------- MODULE Translations ----------------------------
(***************************************************************************)
(* The translations of an app: the store of a simulator that reads them    *)
(* from the app's directory (src/i18n-store.ts), and the i18n of the shim  *)
(* of @forge/api in front of it (src/shims/forge-api.ts), which finds the  *)
(* store by getSimulator(), while apps are deployed and reset.             *)
(*                                                                         *)
(* The shim of @forge/bridge (src/shims/forge-bridge.ts:433-482) does the  *)
(* same, with a cache of its own, from the time that connectSimulator()    *)
(* has put the simulator where its getI18nStore() looks for it             *)
(* (globalThis.__forgeSimulator, src/ui/bridge.ts:442).  ensureBridge()    *)
(* calls it before any UI is rendered (src/ui/simulator-ui.ts:308, 792).   *)
(*                                                                         *)
(* A resource is told by the app it is of, or Override when it was set by  *)
(* a test; its texts are left out, and so are setConfig() and apps that    *)
(* have no i18n-info.json.                                                 *)
(*                                                                         *)
(* Bounds: Lookups are all the questions, MaxTurns the deploys, resets and *)
(* overrides.                                                              *)
(***************************************************************************)
EXTENDS SequencesExt, Naturals

CONSTANTS Speaking,      \* apps, by their directories
          Locales,
          DefaultLocale, \* that of an app's i18n-info.json, and en-US without one
          FilesOf,       \* app -> the locales it has a file of; {}: no __LOCALES__
          FallbacksOf,   \* app -> locale -> the locales to try instead, in order
          Lookups, MaxTurns

NoDir == "no app"
Override == "override"
NoText == "no text"

ASSUME FilesAssumption ==
  /\ FilesOf \in [Speaking -> SUBSET Locales] /\ DefaultLocale \in Locales
  /\ FallbacksOf \in [Speaking -> [Locales -> Seq(Locales)]]
  /\ {NoDir, Override, NoText} \cap Speaking = {}

VARIABLES dir,        \* localesDir: the app whose files are read, or NoDir
          info,       \* infoConfig: the app whose i18n-info.json is cached, or NoDir
          resources,  \* locale -> what is cached of it, or NoText
          overrides,  \* the locales a test has set, in order
          functions,  \* locale -> the answer its cached translation function is built on
          lookups,    \* lookup -> [at, wants, locale, rest, file, from, answer]
          changes,    \* history: [app, set] of the directories and overrides there were
          mixed       \* history: what is cached was read from a directory of before

trVars == <<dir, info, resources, overrides, functions, lookups, changes, mixed>>

\* `of`: the change it was asked after; `sound`: none came until it was answered.
AnswerOf(locale, text, of) == [locale |-> locale, text |-> text, of |-> of,
                               sound |-> of = Len(changes) /\ ~mixed]
NoAnswer == [locale |-> DefaultLocale, text |-> NoText, of |-> 0, sound |-> FALSE]
NewLookup == [at |-> "new", wants |-> "translations", locale |-> DefaultLocale, rest |-> <<>>,
           file |-> NoDir, from |-> 0, answer |-> NoAnswer]

NoResources == [l \in Locales |-> NoText]
HasTranslations == dir # NoDir \/ overrides # <<>>

-----------------------------------------------------------------------------
(* Deploys and resets *)

Changed(app, set) ==
  /\ Len(changes) < MaxTurns + 1
  /\ changes' = Append(changes, [app |-> app, set |-> set])

\* Mutant: the texts of the app before stay in the cache.
KeptResources == resources

FreshResources == NoResources

\* loadFromAppDir(): an app without locales leaves what the app before it left.
LoadApp(app) ==
  /\ IF FilesOf[app] # {}
     THEN /\ Changed(app, overrides)
          /\ dir' = app /\ info' = NoDir /\ resources' = FreshResources /\ mixed' = FALSE
     ELSE Changed(dir, overrides) /\ UNCHANGED <<dir, info, resources, mixed>>
  /\ UNCHANGED <<overrides, functions, lookups>>

ClearStore ==
  /\ dir' = NoDir /\ info' = NoDir
  /\ resources' = NoResources /\ overrides' = <<>> /\ mixed' = FALSE
  /\ Changed(NoDir, <<>>)

\* reset() of the simulator.
ResetTranslations ==
  /\ HasTranslations
  /\ ClearStore
  /\ UNCHANGED <<functions, lookups>>

\* resetTranslationsCache() of the shim: the store as well.
ResetCache ==
  /\ ClearStore
  /\ functions' = [l \in Locales |-> NoAnswer]
  /\ UNCHANGED lookups

SetTranslations(l) ==
  /\ l \notin ToSet(overrides)
  /\ Changed(dir, Append(overrides, l))
  /\ overrides' = Append(overrides, l)
  /\ UNCHANGED <<dir, info, resources, functions, lookups, mixed>>

-----------------------------------------------------------------------------
(* A lookup, from one await to the next *)

\* The lookup ends; a translation function is cached, with what it is built on.
Finish(a, answer) ==
  /\ lookups' = [lookups EXCEPT ![a].at = "done", ![a].answer = answer]
  /\ functions' = IF lookups[a].wants = "function"
                  THEN [functions EXCEPT ![lookups[a].locale] = answer] ELSE functions

Found(a, locale, text) == Finish(a, AnswerOf(locale, text, lookups[a].from))
NotFound(a) == Found(a, lookups[a].locale, NoText)

Moves(a, step) == lookups' = [lookups EXCEPT ![a] = step] /\ UNCHANGED functions

\* `wants` is "function", "translations", or "exact": translations without a fallback.
LookUp(a, wants, l) ==
  /\ lookups[a].at = "new"
  /\ LET begun == [lookups EXCEPT ![a].at = "try", ![a].wants = wants, ![a].locale = l,
                               ![a].rest = <<l>>, ![a].from = Len(changes)]
         cached == wants = "function" /\ functions[l].of > 0
         over(answer) == [begun EXCEPT ![a].at = "done", ![a].answer = answer]
     IN  IF cached THEN lookups' = over(functions[l]) /\ UNCHANGED functions
         ELSE IF HasTranslations THEN lookups' = begun /\ UNCHANGED functions
         ELSE LET none == AnswerOf(l, NoText, Len(changes)) IN
              /\ lookups' = over(none)
              /\ functions' = IF wants = "function" THEN [functions EXCEPT ![l] = none]
                                                    ELSE functions
  /\ UNCHANGED <<dir, info, resources, overrides, changes, mixed>>

\* After a locale that has no text: the configuration, once, or the next of the chain.
TryOther(a) ==
  LET ask == lookups[a] IN
  CASE ask.at \in {"try", "read"} /\ ask.wants = "exact" -> NotFound(a)
    [] ask.at \in {"try", "read"} /\ ask.wants # "exact" ->
         Moves(a, [ask EXCEPT !.at = "configure"])
    [] ask.at \in {"tryNext", "readNext"} /\ Len(ask.rest) > 1 ->
         Moves(a, [ask EXCEPT !.at = "tryNext", !.rest = Tail(@)])
    [] OTHER -> NotFound(a)

\* getTranslationResource(), up to its read.
TryLocale(a) ==
  LET ask == lookups[a]
      l == Head(ask.rest)
  IN  /\ ask.at \in {"try", "tryNext"}
      /\ CASE l \in ToSet(overrides) -> Found(a, l, Override)
           [] l \notin ToSet(overrides) /\ resources[l] # NoText -> Found(a, l, resources[l])
           [] l \notin ToSet(overrides) /\ resources[l] = NoText /\ dir = NoDir -> TryOther(a)
           [] OTHER -> Moves(a, [ask EXCEPT !.at = IF @ = "try" THEN "read" ELSE "readNext",
                                            !.file = dir])
      /\ UNCHANGED <<dir, info, resources, overrides, changes, mixed>>

\* What was read is cached, whatever the directory is by now.
FileRead(a) ==
  LET ask == lookups[a]
      l == Head(ask.rest)
  IN  /\ ask.at \in {"read", "readNext"}
      /\ IF l \in FilesOf[ask.file]
         THEN /\ resources' = [resources EXCEPT ![l] = ask.file]
              /\ mixed' = (mixed \/ ask.file # dir)
              /\ Found(a, l, ask.file)
         ELSE TryOther(a) /\ UNCHANGED <<resources, mixed>>
      /\ UNCHANGED <<dir, info, overrides, changes>>

\* Without a directory, the first override is the default.
Default(app) == IF app = NoDir /\ overrides # <<>> THEN Head(overrides) ELSE DefaultLocale

\* Mutant: the default comes before the fallbacks of the locale.
DefaultFirst(fallbacks, default) == <<default>> \o fallbacks

DefaultLast(fallbacks, default) == Append(fallbacks, default)

\* The chain of the locale l, after l itself.
Chain(app, l) ==
  LET fallbacks == IF app = NoDir THEN <<>> ELSE FallbacksOf[app][l]
  IN  IF l = Default(app) THEN fallbacks ELSE DefaultLast(fallbacks, Default(app))

Follow(a, app) ==
  LET chain == Chain(app, lookups[a].locale) IN
  IF chain = <<>> THEN NotFound(a)
  ELSE Moves(a, [lookups[a] EXCEPT !.at = "tryNext", !.rest = chain])

\* getI18nInfoConfig()
Configure(a) ==
  /\ lookups[a].at = "configure"
  /\ IF info = NoDir /\ dir # NoDir
     THEN Moves(a, [lookups[a] EXCEPT !.at = "readInfo", !.file = dir])
     ELSE Follow(a, info)
  /\ UNCHANGED <<dir, info, resources, overrides, changes, mixed>>

InfoRead(a) ==
  /\ lookups[a].at = "readInfo"
  /\ info' = lookups[a].file
  /\ mixed' = (mixed \/ lookups[a].file # dir)
  /\ Follow(a, lookups[a].file)
  /\ UNCHANGED <<dir, resources, overrides, changes>>

-----------------------------------------------------------------------------
TranslationsInit ==
  /\ dir = NoDir /\ info = NoDir /\ resources = NoResources /\ overrides = <<>>
  /\ functions = [l \in Locales |-> NoAnswer]
  /\ lookups = [a \in Lookups |-> NewLookup]
  /\ changes = <<[app |-> NoDir, set |-> <<>>]>> /\ mixed = FALSE

TranslationsNext ==
  \/ \E app \in Speaking : LoadApp(app)
  \/ \E l \in Locales : SetTranslations(l)
  \/ ResetTranslations \/ ResetCache
  \/ \E a \in Lookups :
       \/ \E l \in Locales, w \in {"function", "translations", "exact"} : LookUp(a, w, l)
       \/ TryLocale(a) \/ FileRead(a) \/ Configure(a) \/ InfoRead(a)

TranslationsSpec == TranslationsInit /\ [][TranslationsNext]_trVars

-----------------------------------------------------------------------------
\* What there is of the locale l after the change c.
TextOf(c, l) == IF l \in ToSet(c.set) THEN Override
                ELSE IF c.app # NoDir /\ l \in FilesOf[c.app] THEN c.app ELSE NoText

\* The first of some locales that has a text, or none, in the locale l.
FirstText(c, order, l) ==
  LET having == {i \in DOMAIN order : TextOf(c, order[i]) # NoText}
  IN  IF having = {} THEN <<l, NoText>>
      ELSE <<order[Min(having)], TextOf(c, order[Min(having)])>>

\* The locale asked for, then its fallbacks, then the default.
Expected(c, wants, l) ==
  LET default == IF c.app = NoDir /\ c.set # <<>> THEN Head(c.set) ELSE DefaultLocale
      fallbacks == IF c.app = NoDir THEN <<>> ELSE FallbacksOf[c.app][l]
  IN  FirstText(c, IF wants = "exact" THEN <<l>> ELSE <<l>> \o Append(fallbacks, default), l)

\* What is answered comes from the app that is loaded or from an override, in the locale that
\* was asked for or else in the first of its fallbacks and the default that has a text.  This
\* is so of every answer with no change while it was sought, and a translation function goes
\* on saying what was right when it was made.  In the code a file that is read while the app
\* changes is cached for the next one, until it changes again (getTranslationResource()).
SpeaksTheApp ==
  \A a \in Lookups :
    LET answer == lookups[a].answer IN
    (lookups[a].at = "done" /\ answer.sound) =>
      <<answer.locale, answer.text>> =
        Expected(changes[answer.of], lookups[a].wants, lookups[a].locale)
=============================================================================
