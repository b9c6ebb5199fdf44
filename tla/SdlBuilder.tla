----------------------------- MODULE SdlBuilder -----------------------------
(* The SDL builder of the web application (deploy-web): the form keeps a list  *)
(* of services, generateSdl turns them into one document (sdlGenerator.ts),    *)
(* which is saved as a template or deployed, and importSimpleSdl turns a       *)
(* document into services again (sdlImport.ts). A document is deployed only    *)
(* when validate (v1beta3.ts) accepts it.                                      *)
(*                                                                             *)
(* Of a service the model keeps what the conversions may lose, or one service  *)
(* may do to another; image, cpu, ports, http options and volumes are copied   *)
(* one to one, and the form's own rules (a mount is an absolute path) hold of  *)
(* what is saved. "service-n" is n. A text is what the conversions see of it:  *)
(* an environment value the parts between its "=" signs, a size the tenths of  *)
(* its unit, of which only the first digits are read again.                    *)
EXTENDS Naturals, SequencesExt

CONSTANTS
  MaxServices,  \* bound of the model: services on the form
  MaxTitle,     \* bound of the model: the largest n of a title
  MaxEdits      \* bound of the model: edits of services by the user

ASSUME SdlBuilderAssumption ==
  MaxServices \in Nat \ {0} /\ MaxTitle \in Nat \ {0} /\ MaxEdits \in Nat

VARIABLES
  services,  \* the services of the form
  template,  \* the saved document
  edits      \* edits so far

sdlVars == <<services, template, edits>>

None == "none"

Service(title) ==
  [title |-> title, env |-> <<>>, command |-> FALSE, arg |-> FALSE,
   storage |-> 10, gpuModels |-> <<>>, global |-> TRUE, ipName |-> None,
   placement |-> "dcloud", anyOf |-> None, allOf |-> None, attributes |-> None]

NoSdl == [services |-> <<>>, placement |-> <<>>, endpoints |-> {}, deployment |-> <<>>]

Unnamed == ""

Put(f, k, v) == [x \in DOMAIN f \cup {k} |-> IF x = k THEN v ELSE f[x]]

-----------------------------------------------------------------------------
(* generateSdl *)

(* Nothing of a secret but its key is saved.                                  *)
GeneratedEnv(e) == IF e.isSecret THEN <<"">> ELSE e.value

(* A vendor's models, or none of them (null) when no entry names one.         *)
AddNamed(names, name) == IF name = Unnamed THEN names ELSE Append(names, name)
GeneratedGpu(models) == FoldLeft(AddNamed, <<>>, models)

(* The part of "services" and "profiles.compute" under the service's title.   *)
GeneratedService(s) ==
  [env |-> [i \in DOMAIN s.env |-> GeneratedEnv(s.env[i])],
   command |-> s.command, arg |-> s.command /\ s.arg,
   storage |-> s.storage, gpu |-> s.gpuModels # <<>>, models |-> GeneratedGpu(s.gpuModels),
   to |-> [global |-> s.global, ip |-> s.ipName]]

NoPlacement == [pricing |-> {}, anyOf |-> None, allOf |-> None, attributes |-> None]

\* Mutant of PlacementIn: every service starts its placement anew.
PlacementAnew(sdl, name) == NoPlacement

PlacementIn(sdl, name) ==
  IF name \in DOMAIN sdl.placement THEN sdl.placement[name] ELSE NoPlacement

(* Both conditions test anyOf.                                                *)
SignedBy(p, s) ==
  IF s.anyOf = None THEN p ELSE [p EXCEPT !.anyOf = s.anyOf, !.allOf = s.allOf]

Attributes(p, s) == IF s.attributes = None THEN p ELSE [p EXCEPT !.attributes = s.attributes]

Priced(p, s) == [p EXCEPT !.pricing = @ \cup {s.title}]

(* A service with an IP endpoint replaces those of the services before it.    *)
Endpoints(endpoints, s) == IF s.ipName = None THEN endpoints ELSE {s.ipName}

(* A later service with the title of an earlier one takes its place.          *)
AddService(sdl, s) ==
  [services |-> Put(sdl.services, s.title, GeneratedService(s)),
   placement |-> Put(sdl.placement, s.placement,
                     Attributes(SignedBy(Priced(PlacementIn(sdl, s.placement), s), s), s)),
   endpoints |-> Endpoints(sdl.endpoints, s),
   deployment |-> Put(sdl.deployment, s.title, s.placement)]

GenerateSdl(form) == FoldLeft(AddService, NoSdl, form)

-----------------------------------------------------------------------------
(* importSimpleSdl *)

(* e.split("=")[1]: what follows the second "=" is dropped.                   *)
ImportedEnv(value) == [value |-> <<Head(value)>>, isSecret |-> FALSE]

(* size.match(/\d+/g)[0]                                                      *)
ResourceDigit(size) == (size \div 10) * 10

\* Mutant of GpuModels: a vendor without models gives no entry.
NamedGpuModels(svc) == svc.models

(* A vendor without models is one entry without a name.                       *)
GpuModels(svc) ==
  IF ~svc.gpu THEN <<>> ELSE IF svc.models = <<>> THEN <<Unnamed>> ELSE svc.models

ImportedService(sdl, title) ==
  LET svc == sdl.services[title]
      placement == sdl.placement[sdl.deployment[title]]
  IN [title |-> title,
      env |-> [i \in DOMAIN svc.env |-> ImportedEnv(svc.env[i])],
      command |-> svc.command, arg |-> svc.arg,
      storage |-> ResourceDigit(svc.storage), gpuModels |-> GpuModels(svc),
      global |-> svc.to.global, ipName |-> IF svc.to.global THEN svc.to.ip ELSE None,
      placement |-> sdl.deployment[title], anyOf |-> placement.anyOf,
      allOf |-> placement.allOf, attributes |-> placement.attributes]

(* The keys of an object, sorted: by number, as texts are up to "service-9".   *)
(* Beyond, only that the order depends on nothing but the keys is the code's.  *)
InOrder(T) ==
  CHOOSE titles \in [1..Cardinality(T) -> T] :
    /\ \A i, j \in DOMAIN titles : i < j => titles[i] < titles[j]
    /\ ToSet(titles) = T

ImportSimpleSdl(sdl) ==
  LET titles == InOrder(DOMAIN sdl.services)
  IN [i \in DOMAIN titles |-> ImportedService(sdl, titles[i])]

-----------------------------------------------------------------------------
(* validate: the checks a document of the builder can fail. The one for port  *)
(* collisions on an endpoint cannot fail: nothing is ever noted in portsUsed. *)

EndpointsUsed(sdl) == {sdl.services[t].to.ip : t \in DOMAIN sdl.services} \ {None}

Validate(sdl) ==
  /\ \A t \in DOMAIN sdl.services :
       /\ t \in sdl.placement[sdl.deployment[t]].pricing
       /\ sdl.services[t].to.ip # None =>
            sdl.services[t].to.global /\ sdl.services[t].to.ip \in sdl.endpoints
  /\ sdl.endpoints \subseteq EndpointsUsed(sdl)

-----------------------------------------------------------------------------
(* The form *)

OnAddService ==
  /\ Len(services) < MaxServices
  /\ services' = Append(services, Service(Len(services) + 1))
  /\ UNCHANGED <<template, edits>>

(* The button is there while there is more than one service.                  *)
OnRemoveService ==
  /\ Len(services) > 1
  /\ \E i \in DOMAIN services : services' = RemoveAt(services, i)
  /\ UNCHANGED <<template, edits>>

EnvVariables == [value : {<<"a">>, <<"a", "b">>}, isSecret : BOOLEAN]

(* The fields of a service the user changes, each with what it may become.    *)
Edited(s) ==
  {[s EXCEPT !.title = t] : t \in 1..MaxTitle}
  \cup {[s EXCEPT !.env = Append(@, e)] : e \in EnvVariables}
  \cup {[s EXCEPT !.command = ~@], [s EXCEPT !.arg = ~@], [s EXCEPT !.global = ~@]}
  \cup {[s EXCEPT !.storage = size] : size \in {5, 15, 20}}
  \cup {[s EXCEPT !.gpuModels = Append(@, name)] : name \in {Unnamed, "a100"}}
  \cup {[s EXCEPT !.ipName = ip] : ip \in {None, "ip1", "ip2"}}
  \cup {[s EXCEPT !.placement = "other"]}
  \cup {[s EXCEPT !.anyOf = a] : a \in {None, "auditor"}}
  \cup {[s EXCEPT !.allOf = a] : a \in {None, "auditor"}}
  \cup {[s EXCEPT !.attributes = a] : a \in {None, "host"}}

EditService ==
  /\ edits < MaxEdits
  /\ \E i \in DOMAIN services : \E s \in Edited(services[i]) \ {services[i]} :
       services' = [services EXCEPT ![i] = s]
  /\ edits' = edits + 1
  /\ UNCHANGED template

SaveTemplate ==
  /\ template' = GenerateSdl(services)
  /\ UNCHANGED <<services, edits>>

(* Opening a template, or importing its document, replaces the form.          *)
LoadTemplate ==
  /\ template # NoSdl
  /\ services' = ImportSimpleSdl(template)
  /\ UNCHANGED <<template, edits>>

SdlInit == services = <<Service(1)>> /\ template = NoSdl /\ edits = 0

SdlNext == OnAddService \/ OnRemoveService \/ EditService \/ SaveTemplate \/ LoadTemplate

SdlSpec == SdlInit /\ [][SdlNext]_sdlVars

-----------------------------------------------------------------------------
(* What the two conversions cannot keep of a service by itself, apart from    *)
(* what the texts abstract from: blanks around and inside a command, around   *)
(* arguments, names and values of the environment, and "=" inside its names.  *)
Plain(s) ==
  /\ \A i \in DOMAIN s.env : ~s.env[i].isSecret /\ Len(s.env[i].value) = 1
  /\ s.arg => s.command
  /\ s.storage % 10 = 0
  /\ Unnamed \in ToSet(s.gpuModels) => s.gpuModels = <<Unnamed>>
  /\ s.ipName # None => s.global
  /\ s.allOf # None => s.anyOf # None

(* Two services that the document keeps apart.                                *)
Apart(s, t) ==
  /\ s.title # t.title
  /\ s.placement = t.placement =>
       s.anyOf = t.anyOf /\ s.allOf = t.allOf /\ s.attributes = t.attributes

(* What a form loses it loses once: a template that is loaded, saved and      *)
(* loaded again gives the same services.                                      *)
LoadedTemplateIsStable ==
  template # NoSdl =>
    LET loaded == ImportSimpleSdl(template)
    IN  ImportSimpleSdl(GenerateSdl(loaded)) = loaded

(* A service of the form, saved and loaded again, comes back as it was,       *)
(* whatever the other services are and however the form got there, unless it  *)
(* has one of the losses named in Plain or another service has its title or   *)
(* shares its placement with other signers or attributes. Loading invents no  *)
(* service, and loses nothing more the second time (generateSdl and           *)
(* importSimpleSdl).                                                          *)
ServicesComeBack ==
  LET loaded == ImportSimpleSdl(GenerateSdl(services)) IN
  /\ \A i \in DOMAIN services :
       Plain(services[i]) /\ (\A j \in DOMAIN services \ {i} : Apart(services[i], services[j]))
         => services[i] \in ToSet(loaded)
  /\ {loaded[i].title : i \in DOMAIN loaded} = {services[i].title : i \in DOMAIN services}
  /\ LoadedTemplateIsStable

(* The builder's document is accepted for a deployment unless the form has an *)
(* IP endpoint that is not global, or two of them, or two services with one   *)
(* title (generateSdl and validate).                                          *)
AcceptedUnlessIpsClash ==
  /\ IsInjective([i \in DOMAIN services |-> services[i].title])
  /\ \A i \in DOMAIN services : services[i].ipName # None => services[i].global
  /\ \A i, j \in DOMAIN services :
       services[i].ipName = None \/ services[j].ipName \in {None, services[i].ipName}
  => Validate(GenerateSdl(services))
==============================================================================
