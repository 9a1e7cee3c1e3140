----------------------------- MODULE LaneContracts -----------------------------
(***************************************************************************)
(* The lanes that change the cluster: an Ansible role with its own action  *)
(* plugin (ansible/plugins/action/<name>_guarded_k8s.py) each. A plugin is *)
(* what it refuses, whatever its messages; a role is the tasks that touch  *)
(* the cluster or stop the play, in order. Module GuardedLane runs them.   *)
(*                                                                         *)
(* Manifests of one kind that a role treats alike are one object here, in  *)
(* the order their loop applies them.                                      *)
(***************************************************************************)
EXTENDS Sequences

(* Guards: "selection" --start-at-task, --step, --skip-tags (four plugins  *)
(* let --tags pass, but no task has a tag: it selects all of them or       *)
(* none), "source" the task file the call comes from, "attestation" the    *)
(* wrapper's token file, read again at every call, "binding" the preflight *)
(* facts, "arguments" the exact arguments. closure: what a definition is   *)
(* compared with ("hash" a table in the plugin, "files" the repository at  *)
(* the time of the call, "values" only its shape, "patch" the content the  *)
(* patch itself tests).                                                    *)
Plugin(guards, closure) == [guards |-> guards, closure |-> closure]
Every == {"selection", "source", "attestation", "binding", "arguments"}
NoBinding == Every \ {"binding"}

ArgocdPlugin == Plugin(Every, "hash")

PostgresqlPlugin == Plugin(Every, "hash")
MongodbPlugin == Plugin(Every, "hash")
KeycloakPlugin == Plugin(Every, "hash")
RabbitmqPlugin == Plugin(Every, "hash")
OidcProxyPlugin == Plugin(Every, "hash")
CloudflaredPlugin == Plugin(Every, "hash")
ArgocdRoutePlugin == Plugin(Every, "hash")
KeycloakRoutePlugin == Plugin(Every, "hash")
OperatorPlugin == Plugin(Every, "hash")
ProdNamespacePlugin == Plugin(Every, "hash")
ProdRegistrationPlugin == Plugin(Every, "hash")
DatabaseSecretsPlugin == Plugin(Every, "hash")
ArgocdSecretsPlugin == Plugin(Every, "hash")
DevRuntimePlugin == Plugin(Every, "hash")
ProdRuntimePlugin == Plugin(Every, "hash")

(* Its binding is a constant it builds itself: it refuses nothing.         *)
CloudflaredSecretsPlugin == Plugin(NoBinding, "hash")
DevRegistrationPlugin == Plugin(NoBinding, "hash")
SyncTransitionPlugin == Plugin(NoBinding, "files")
ProxyZeroPlugin == Plugin(NoBinding, "values")
UniversalAuthPlugin == Plugin(NoBinding, "values")
CorednsPlugin == Plugin(NoBinding, "patch")

(* The whole argument, definition included, is compared with a constant.   *)
DevNamespacePlugin == Plugin({"selection", "arguments"}, "hash")

---------------------------------------------------------------------------
(* Tasks. A role is a sequence of [do, on]; GuardedLane gives each do its  *)
(* meaning, one action each.                                               *)

Do(task, objects) == [do |-> task, on |-> objects]

(* Internals given from outside are rejected, the attestation is checked,  *)
(* every manifest is hashed, then read again to be loaded.                 *)
Entry == <<Do("reject", <<>>), Do("attest", <<>>), Do("hash", <<>>), Do("load", <<>>)>>
ThenExact(objects) == <<Do("look", objects), Do("verifyExact", objects)>>
ThenLabels(objects) == <<Do("look", objects), Do("verifyLabels", objects)>>

(* A few fields of what is there afterwards are compared, no others.       *)
ThenPart(objects) == <<Do("look", objects), Do("verifyPart", objects)>>

(* What is found is accepted by the labels of the lane, and so is what is  *)
(* there afterwards.                                                       *)
ByLabels(objects) ==
    Entry \o <<Do("read", objects), Do("acceptLabels", objects), Do("bind", <<>>),
               Do("apply", objects)>> \o ThenLabels(objects)

(* The rest of a lane: its own objects, and others it only watches. Lanes  *)
(* that differ in nothing but their names are one and the same record.     *)
Lane(plugin, objects, watched, script) ==
    [plugin |-> plugin, own |-> objects, watched |-> watched, script |-> script]
Simple(plugin, objects, script) == Lane(plugin, objects, <<>>, script)

---------------------------------------------------------------------------
(* Closures applied in one loop.                                           *)

(* The definitions first, and the loop of the rest only when they are      *)
(* established.                                                            *)
Argocd ==
    LET objects == <<"crd", "project", "workload">> IN
    Simple(ArgocdPlugin, objects,
           Entry \o <<Do("read", objects), Do("acceptLabels", objects), Do("bind", <<>>),
                      Do("apply", <<"crd">>), Do("apply", <<"project", "workload">>)>>
                 \o ThenLabels(objects))

Operator ==
    LET objects == <<"crd", "workload">> IN
    Simple(OperatorPlugin, objects,
           Entry \o <<Do("read", objects), Do("acceptLabels", objects), Do("bind", <<>>),
                      Do("apply", <<"crd">>), Do("waitPresent", <<"crd">>),
                      Do("apply", <<"workload">>)>> \o ThenLabels(objects))

(* A drifted StatefulSet or NetworkPolicy is refused, other objects of the *)
(* lane are taken back by their labels.                                    *)
Engine(plugin) ==
    LET objects == <<"config", "statefulset">> IN
    Simple(plugin, objects,
           Entry \o <<Do("read", objects), Do("acceptLabels", <<"config">>),
                      Do("acceptExact", <<"statefulset">>), Do("bind", <<>>),
                      Do("apply", objects)>> \o ThenExact(objects))
Postgresql == Engine(PostgresqlPlugin)
Mongodb == Engine(MongodbPlugin)

Workload(plugin) ==
    Simple(plugin, <<"config", "workload">>, ByLabels(<<"config", "workload">>))
Keycloak == Workload(KeycloakPlugin)
Rabbitmq == Workload(RabbitmqPlugin)
OidcProxy == Workload(OidcProxyPlugin)
Cloudflared == Workload(CloudflaredPlugin)
ArgocdRoute == Workload(ArgocdRoutePlugin)
KeycloakRoute == Workload(KeycloakRoutePlugin)

(* The manifest is read once more inside the loop, whose condition reads   *)
(* the attestation and the content: the item is skipped where it fails.    *)
DevNamespace ==
    Simple(DevNamespacePlugin, <<"namespace">>,
           <<Do("reject", <<>>), Do("attest", <<>>), Do("load", <<>>), Do("content", <<>>),
             Do("read", <<"namespace">>), Do("acceptExact", <<"namespace">>),
             Do("bind", <<>>), Do("load", <<>>), Do("applyWhen", <<"namespace">>)>>
             \o ThenExact(<<"namespace">>))
ProdNamespace ==
    Simple(ProdNamespacePlugin, <<"namespace">>,
           <<Do("reject", <<>>), Do("attest", <<>>), Do("load", <<>>), Do("content", <<>>),
             Do("read", <<"namespace">>), Do("acceptExact", <<"namespace">>),
             Do("bind", <<>>), Do("load", <<>>), Do("applyWhen", <<"namespace">>)>>
             \o ThenExact(<<"namespace">>))

Registered == <<"project", "application">>
DevRegistration ==
    Simple(DevRegistrationPlugin, Registered,
           <<Do("reject", <<>>), Do("hash", <<>>), Do("load", <<>>), Do("apply", Registered)>>
             \o ThenPart(Registered))
ProdRegistration ==
    Simple(ProdRegistrationPlugin, Registered,
           <<Do("reject", <<>>), Do("hash", <<>>), Do("load", <<>>), Do("read", Registered),
             Do("acceptExact", Registered), Do("bind", <<>>), Do("apply", Registered)>>
             \o ThenExact(Registered))

(* The registered objects must be there; whose they are is not asked. Of   *)
(* the loaded manifests, of what is found and of what is there afterwards, *)
(* only the synchronization policy is compared.                            *)
SyncTransition ==
    Simple(SyncTransitionPlugin, Registered,
           Entry \o <<Do("contract", <<>>), Do("read", Registered),
                      Do("acceptThere", Registered), Do("apply", Registered)>>
                 \o ThenPart(Registered))

(* The values come from a private document, not from the repository.       *)
ProxyZero ==
    LET objects == <<"platform", "shared">> IN
    Simple(ProxyZeroPlugin, objects,
           <<Do("reject", <<>>), Do("attest", <<>>), Do("read", objects),
             Do("acceptExact", objects), Do("apply", objects)>> \o ThenExact(objects))

(* All three credentials or none of them.                                  *)
UniversalAuth ==
    LET objects == <<"dev", "prod">> IN
    Simple(UniversalAuthPlugin, objects,
           <<Do("reject", <<>>), Do("attest", <<>>), Do("read", objects),
             Do("acceptExact", objects), Do("acceptAllOrNone", objects),
             Do("apply", objects)>> \o ThenExact(objects))

(* "drifted" is the file with the old upstream, "ours" with the new one;   *)
(* the patch is written only over the content that was read.               *)
Coredns ==
    Simple(CorednsPlugin, <<"corefile">>,
           <<Do("read", <<"corefile">>), Do("acceptOldOrNew", <<"corefile">>),
             Do("swap", <<"corefile">>)>>)

---------------------------------------------------------------------------
(* Closures that give a writer its rights in stages.                       *)

Admission == <<"policy", "binding">>

(* Neither what is there nor what was written is looked at; the token file *)
(* is left to the plugin.                                                  *)
CloudflaredSecrets ==
    LET objects == Admission \o <<"rbac", "static">> IN
    Simple(CloudflaredSecretsPlugin, objects,
           <<Do("hash", <<>>), Do("load", <<>>), Do("apply", objects)>>)

DevRuntime ==
    LET objects == Admission \o <<"rbac", "static">> IN
    Simple(DevRuntimePlugin, objects,
           Entry \o <<Do("read", objects), Do("acceptExact", objects), Do("bind", <<>>),
                      Do("apply", objects)>> \o ThenExact(objects))

(* What is read and compared again between admission and the writer's RBAC:*)
(* of the sources, the StaticSecrets.                                      *)
BeforeGrant(statics) ==
    <<Do("look", <<"target">>), Do("sameVersion", <<"target">>),
      Do("look", <<"alternate">>), Do("none", <<"alternate">>),
      Do("look", statics), Do("sameIdentity", statics)>>

(* Targets, own objects, other producers of the targets, then every        *)
(* StaticSecret there is are inspected; admission, the second look, RBAC,  *)
(* the sources. accepts: the tasks that judge the lane's own objects,      *)
(* counted: the one that judges the StaticSecrets.                         *)
Materialization(plugin, statics, accepts, counted) ==
    LET sources == <<"connection", "auth">> \o statics
        objects == Admission \o <<"rbac">> \o sources IN
    Lane(plugin, objects, <<"target", "alternate">>,
         Entry \o
         <<Do("read", <<"target">>), Do("acceptExact", <<"target">>), Do("read", objects)>>
         \o accepts \o
         <<Do("read", <<"alternate">>), Do("none", <<"alternate">>),
           Do("read", statics), Do(counted, statics), Do("atMostOne", statics),
           Do("bind", <<>>),
           Do("apply", <<"policy">>), Do("waitPresent", <<"policy">>),
           Do("apply", <<"binding">>), Do("waitExact", <<"binding">>)>>
         \o BeforeGrant(statics)
         \o <<Do("apply", <<"rbac">>), Do("apply", sources), Do("waitPresent", sources)>>
         \o ThenExact(objects) \o ThenExact(<<"target">>))

DatabaseSecrets ==
    LET statics == <<"postgresql", "mongodb">> IN
    Materialization(DatabaseSecretsPlugin, statics,
                    <<Do("acceptLabels", <<"policy", "connection">> \o statics),
                      Do("acceptExact", <<"binding", "rbac", "auth">>)>>, "acceptLabels")

(* Its policy may be the one of an earlier revision.                       *)
ArgocdSecrets ==
    Materialization(ArgocdSecretsPlugin, <<"static">>,
                    <<Do("acceptRevision", <<"policy">>), Do("acceptLabels", <<"static">>),
                      Do("acceptExact", <<"binding", "rbac", "connection", "auth">>)>>,
                    "acceptExact")

(* The credential is compared again before each source is written.         *)
Credential == <<Do("look", <<"credential">>), Do("sameVersion", <<"credential">>)>>

(* A source is written only where the first look found none.               *)
CreateSource(source) ==
    Credential \o <<Do("look", <<source>>), Do("sameSpec", <<source>>),
                    Do("create", <<source>>)>>

(* The versions of its custom resources are compared with the inventory    *)
(* taken first and with the look at its own objects.                       *)
ProdRuntime ==
    LET sources == <<"connection", "auth", "static">>
        objects == Admission \o <<"rbac">> \o sources IN
    Lane(ProdRuntimePlugin, objects, <<"target", "credential">>,
         <<Do("reject", <<>>), Do("attest", <<>>),
           Do("inventory", sources), Do("inventory", <<"credential">>),
           Do("read", <<"target">>), Do("acceptExact", <<"target">>),
           Do("hash", <<>>), Do("load", <<>>),
           Do("read", <<"credential">>), Do("acceptOurs", <<"credential">>),
           Do("read", objects), Do("acceptRevision", <<"policy">>),
           Do("acceptExact", <<"binding", "rbac">> \o sources), Do("bind", <<>>),
           Do("apply", <<"policy">>), Do("waitExact", <<"policy">>),
           Do("apply", <<"binding">>), Do("waitExact", <<"binding">>),
           Do("look", sources), Do("look", <<"credential", "target">>),
           Do("sameInventory", sources \o <<"credential">>), Do("sameVersion", <<"target">>),
           Do("look", <<"rbac">> \o sources), Do("sameVersion", <<"rbac">> \o sources),
           Do("look", Admission), Do("inEffect", Admission),
           Do("apply", <<"rbac">>)>>
         \o Credential
         \o <<Do("look", sources), Do("sameSpec", sources), Do("create", <<"connection">>)>>
         \o CreateSource("auth") \o CreateSource("static")
         \o <<Do("waitPresent", sources)>> \o ThenExact(<<"target">>) \o ThenExact(objects))

RepositoryLanes ==
    {Argocd, Operator, Postgresql, Mongodb, Keycloak, Rabbitmq, OidcProxy, Cloudflared,
     ArgocdRoute, KeycloakRoute, DevNamespace, ProdNamespace, DevRegistration,
     ProdRegistration, SyncTransition, ProxyZero, UniversalAuth, Coredns,
     CloudflaredSecrets, DevRuntime, DatabaseSecrets, ArgocdSecrets, ProdRuntime}

=============================================================================
