------------------------------- MODULE Routes --------------------------------
(***************************************************************************)
(* What every route of /api/v1 declares to the door (the ...Route          *)
(* functions of packages/core/src/*/api.ts): the scopes it needs, the      *)
(* bucket that pays for it and the limit of the bucket, and the check its  *)
(* handler makes itself before anything else.  And what each role and key  *)
(* may reach (packages/core/src/auth/guard.ts).                            *)
(***************************************************************************)
EXTENDS Naturals, TLC

CONSTANTS
    ReadLimit,      \* requests a minute: rateLimits.read, which nothing configures: 120
    WriteLimit,     \* rateLimits.write, 10
    SettingsLimit,  \* DEFAULT_WRITE_LIMIT of the settings, 30
    PublicLimit,    \* rateLimits.public and redeem, 30
    RunLimit,       \* of maintenance/run, 5
    EmailLimit      \* TEST_EMAIL_ATTEMPTS_PER_MINUTE, 3

UserScopes ==
    {"profile:read", "profile:write", "currencies:read",
     "api_keys:read", "api_keys:write", "api_keys:revoke",
     "devices:read", "devices:write", "devices:revoke", "modules:read"}

AdminScopes == UserScopes \cup
    {"users:read", "users:write", "roles:assign",
     "user_categories:read", "user_categories:write",
     "modules:manage", "modules:grant", "invitations:read", "invitations:write",
     "settings:read", "settings:write", "currencies:write"}

SuperAdminScopes == AdminScopes \cup {"users:deactivate"}

ServiceSuperAdminScopes == SuperAdminScopes \cup {"maintenance:run"}

Ranks == {"user", "admin", "super_admin"}

SessionScopes ==
    [user |-> UserScopes, admin |-> AdminScopes, super_admin |-> SuperAdminScopes]

RoleCapFloor ==
    [user |-> UserScopes, admin |-> AdminScopes, super_admin |-> ServiceSuperAdminScopes]

-----------------------------------------------------------------------------
Route(needs, bucket, limit, inner) ==
    [needs |-> needs, bucket |-> bucket, limit |-> limit, inner |-> inner]

\* options and readOptions: a signed in caller pays from its own bucket.
Read(needs) == Route(needs, "user", ReadLimit, "none")
Write(needs) == Route(needs, "user", WriteLimit, "none")

\* Public: the address pays.
Public(inner) == Route({}, "ip", PublicLimit, inner)

UsersRoutes ==
    [usersRoute          |-> Read({"users:read"}),
     userRoute           |-> Read({"users:read"}),
     updateUserRoute     |-> Write({"users:write"}),
     deactivateUserRoute |-> Write({"users:deactivate"})]

ApiKeysRoutes ==
    [apiKeysRoute      |-> Read({"api_keys:read"}),
     apiKeyRoute       |-> Read({"api_keys:read"}),
     createApiKeyRoute |-> Write({"api_keys:write"}),
     revokeApiKeyRoute |-> Write({"api_keys:revoke"})]

DevicesRoutes ==
    [devicesRoute        |-> Read({"devices:read"}),
     registerDeviceRoute |-> Write({"devices:write"}),
     revokeDeviceRoute   |-> Write({"devices:revoke"})]

InvitationsRoutes ==
    [invitationsRoute      |-> Read({"invitations:read"}),
     createInvitationRoute |-> Write({"invitations:write"}),
     revokeInvitationRoute |-> Write({"invitations:write"}),
     redeemInvitationRoute |-> Public("token")]

ModulesRoutes ==
    [modulesRoute             |-> Read({"modules:read"}),
     moduleRoute              |-> Read({"modules:read"}),
     moduleSettingsRoute      |-> Read({"modules:read", "settings:read"}),
     updateModuleRoute        |-> Write({"modules:manage"}),
     installModuleRoute       |-> Write({"modules:manage"}),
     activateModuleRoute      |-> Write({"modules:manage"}),
     deactivateModuleRoute    |-> Write({"modules:manage"}),
     uninstallModuleRoute     |-> Write({"modules:manage"}),
     updateModuleSettingRoute |-> Write({"modules:manage", "settings:write"}),
     grantUserModuleRoute     |-> Write({"modules:grant"}),
     revokeUserModuleRoute    |-> Write({"modules:grant"})]

UserCategoriesRoutes ==
    [userCategoriesRoute         |-> Read({"user_categories:read"}),
     userCategoryRoute           |-> Read({"user_categories:read"}),
     categoryModulesRoute        |-> Read({"user_categories:read", "modules:read"}),
     createUserCategoryRoute     |-> Write({"user_categories:write"}),
     renameUserCategoryRoute     |-> Write({"user_categories:write"}),
     deleteUserCategoryRoute     |-> Write({"user_categories:write"}),
     addCategoryMemberRoute      |-> Write({"user_categories:write"}),
     removeCategoryMemberRoute   |-> Write({"user_categories:write"}),
     assignCategoryModuleRoute   |-> Write({"user_categories:write", "modules:grant"}),
     unassignCategoryModuleRoute |-> Write({"user_categories:write", "modules:grant"})]

SettingsRoutes ==
    [settingsRoute           |-> Read({"settings:read"}),
     settingsCategoriesRoute |-> Read({"settings:read"}),
     patchSettingRoute       |-> Route({"settings:write"}, "user", SettingsLimit, "none"),
     patchSettingsRoute      |-> Route({"settings:write"}, "user", SettingsLimit, "none")]

CurrenciesRoutes ==
    [currenciesRoute    |-> Read({"currencies:read"}),
     patchCurrencyRoute |-> Write({"currencies:write"})]

\* assertInstanceKey, and the check of the status: a super_admin session.
MaintenanceRoutes ==
    [maintenanceRunRoute    |-> Route({"maintenance:run"}, "key", RunLimit, "instanceKey"),
     maintenanceStatusRoute |-> Route({}, "user", ReadLimit, "superAdmin")]

InstanceRoutes == [instanceRoute |-> Public("none"), healthRoute |-> Public("none")]

\* Installation: closed once there is a super_admin; the test email is for one.
SetupRoutes ==
    [setupEnvironmentRoute |-> Public("uninstalled"),
     setupSuperAdminRoute  |-> Public("token"),
     setupTestEmailRoute   |-> Route({"users:write"}, "user", EmailLimit, "superAdmin")]

TranslationsRoutes == [translationsRoute |-> Read({"profile:read"})]

Table ==
    UsersRoutes @@ ApiKeysRoutes @@ DevicesRoutes @@ InvitationsRoutes @@ ModulesRoutes
        @@ UserCategoriesRoutes @@ SettingsRoutes @@ CurrenciesRoutes
        @@ MaintenanceRoutes @@ InstanceRoutes @@ SetupRoutes @@ TranslationsRoutes
=============================================================================
