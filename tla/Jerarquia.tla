------------------------------ MODULE Jerarquia ------------------------------
(****************************************************************************)
(* The organisation chart (table JERARQUIA) and the permission predicates   *)
(* of utils/security.py.  No endpoint writes JERARQUIA or USUARIO.cargo, so *)
(* the chart is a constant and a predicate that reads it costs no step.     *)
(*                                                                          *)
(* Free text (job titles, areas, recipients, specifications) is a finite    *)
(* set of strings.  What Python's str.strip and str.lower and SQLite's      *)
(* LOWER(TRIM(.)) do to them are constant functions on that set: SQLite     *)
(* folds ASCII letters only, so Clave is not Lower after Strip.             *)
(****************************************************************************)
EXTENDS Naturals

CONSTANTS
  Nulo,        \* Python's None / SQL NULL
  Texto,       \* the strings the text columns and the bodies range over
  Strip,       \* str.strip
  Lower,       \* str.lower
  Clave,       \* SQLite's LOWER(TRIM(.))
  Cargo,       \* JERARQUIA.id
  Jefe,        \* JERARQUIA.id_jefe_inmediato
  NombreCargo, \* JERARQUIA.nombre_cargo
  Area         \* JERARQUIA.area

ASSUME TextoAssumption ==
  /\ "" \in Texto
  /\ Strip \in [Texto -> Texto]
  /\ Lower \in [Texto -> Texto]
  /\ Clave \in [Texto -> Texto]

ASSUME CargoAssumption ==
  /\ Cargo \subseteq Nat
  /\ Jefe \in [Cargo -> Cargo \cup {Nulo}]
  /\ NombreCargo \in [Cargo -> Texto]
  /\ Area \in [Cargo -> Texto]
  /\ Nulo \notin Cargo

TextoONulo == Texto \cup {Nulo}

\* (t or "").strip()
Limpio(t) == IF t = Nulo THEN "" ELSE Strip[t]

----------------------------------------------------------------------------
ROLE_CARGO_ACCESS ==
  [rrhh                |-> {1, 48, 49},
   servicios_generales |-> {4},
   inventario          |-> {}]

PERMISSION_ROLES ==
  [usuarios_crear           |-> {"rrhh"},
   usuarios_eliminar        |-> {"rrhh"},
   auth_signup              |-> {"rrhh"},
   onboarding_crear         |-> {"rrhh"},
   onboarding_listar        |-> {"rrhh"},
   onboarding_dotacion_crear  |-> {"rrhh"},
   onboarding_dotacion_listar |-> {"rrhh"},
   onboarding_estadisticas  |-> {"rrhh"},
   puestos_asignar          |-> {"servicios_generales"},
   cargos_listar            |-> {"rrhh", "inventario"}]

allowed_cargos_for_permission(k) ==
  UNION {ROLE_CARGO_ACCESS[r] : r \in PERMISSION_ROLES[k]}

\* A permission granted to no job title answers 500: it grants nothing either.
require_permission(k, cargo) == cargo \in allowed_cargos_for_permission(k)

is_rrhh_cargo(c) == c \in ROLE_CARGO_ACCESS.rrhh

has_direct_reports(c) == \E d \in Cargo : Jefe[d] = c

is_direct_boss_of_cargo(boss, c) == c \in Cargo /\ Jefe[c] = boss

destination_matches_user_cargo(c, destinatario) ==
  /\ destinatario \notin {Nulo, ""}
  /\ c \in Cargo
  /\ LET target == Lower[Strip[destinatario]]
     IN  /\ target # ""
         /\ target \in {Lower[Strip[NombreCargo[c]]], Lower[Strip[Area[c]]]}

\* A job title that is missing from the token (Nulo) is refused by
\* get_payload_cargo before any of the following is asked.
get_payload_cargo(c) == c # Nulo

can_create_onboarding_for_employee(creator, employee) ==
  /\ get_payload_cargo(creator)
  /\ is_rrhh_cargo(creator) \/ is_direct_boss_of_cargo(creator, employee)

can_manage_dotacion(c) ==
  get_payload_cargo(c) /\ (is_rrhh_cargo(c) \/ has_direct_reports(c))

can_update_onboarding_request(c, destinatario) ==
  /\ get_payload_cargo(c)
  /\ is_rrhh_cargo(c) \/ destination_matches_user_cargo(c, destinatario)

can_delete_onboarding_request(c, employee) ==
  /\ get_payload_cargo(c)
  /\ is_rrhh_cargo(c) \/ is_direct_boss_of_cargo(c, employee)

can_view_onboarding_history(c, destinatario, employee) ==
  /\ get_payload_cargo(c)
  /\ \/ is_rrhh_cargo(c)
     \/ destination_matches_user_cargo(c, destinatario)
     \/ is_direct_boss_of_cargo(c, employee)
=============================================================================
